---- MODULE Spec2Model ----
(***************************************************************************)
(* Form-field response resolution engine of auto_app:                      *)
(* FormResponseManager (src/src/managers/form_manager.py) and the field    *)
(* handlers of FormHandler (src/src/handlers/form_handler.py) that drive   *)
(* it.                                                                     *)
(*                                                                         *)
(* A text is a sequence of one-character strings.  An optional value       *)
(* (Python None or a value) is the empty sequence or a one-element         *)
(* sequence: None == <<>>, Some(v) == <<v>>.                               *)
(***************************************************************************)
EXTENDS Integers, Sequences, FiniteSets, TLC

VARIABLES
    responses,                \* self.responses: the in-memory store, in dict (insertion) order
    file_content,             \* the content of the file at self.json_path
    stem_cache,               \* self.stem_cache: word -> stem
    stemmer,                  \* self.stemmer is set (NLTK importable and USE_STEMMING)
    current_job_description,  \* self.current_job_description
    clock,                    \* the wall clock read by time.strftime
    environ,                  \* os.environ['FORM_RESPONSES_PATH']: None when unset
    files,                    \* the file system: path -> content of the file
    potential_paths,          \* FILE_PATHS["FORM_RESPONSES"], the list object of the config
    json_path,                \* self.json_path: None when the attribute is not set
    constructed,              \* a manager object exists
    processed_ids,            \* job_search_manager.processed_ids
    stats,                    \* application_manager.stats
    current_job,              \* where the application manager stands: pc and the card in hand
    call                      \* the last call made on the engine, its arguments and its result

vars == <<responses, file_content, stem_cache, stemmer, current_job_description, clock,
          environ, files, potential_paths, json_path, constructed, processed_ids, stats,
          current_job, call>>

\* what no call on a manager changes: the environment and the list of the config
process == <<environ, potential_paths>>

\* the state of the application manager, which no call on the engine changes
application == <<processed_ids, stats, current_job>>

\* JobSearchManager.__init__ and ApplicationManager.__init__: no card seen,
\* the counters at 0, no card in hand
InitApplication ==
    /\ processed_ids = {}
    /\ stats = [processed |-> 0, skipped |-> 0, already_applied |-> 0]
    /\ current_job = [pc |-> "idle"]

None == <<>>
Some(v) == <<v>>

(***************************************************************************)
(* Bounds of the model.                                                    *)
(***************************************************************************)
MaxLen == 5      \* longest raw text given to the normalizer in SpecNorm

(***************************************************************************)
(* Characters and the str methods the code uses.                           *)
(***************************************************************************)
NL == "\n"
SP == " "
Whitespace == {SP, NL}

\* str.lower() on one character
LowerChar(c) ==
    CASE c = "Y" -> "y"
      [] c = "N" -> "n"
      [] c = "S" -> "s"
      [] OTHER -> c

\* str.lower()
Lower(t) == [i \in 1..Len(t) |-> LowerChar(t[i])]

RECURSIVE LStrip(_)
LStrip(t) == IF t # <<>> /\ Head(t) \in Whitespace THEN LStrip(Tail(t)) ELSE t

RECURSIVE RStrip(_)
RStrip(t) ==
    IF t # <<>> /\ t[Len(t)] \in Whitespace THEN RStrip(SubSeq(t, 1, Len(t) - 1)) ELSE t

\* str.strip()
Strip(t) == RStrip(LStrip(t))

\* str.split(sep) for a one-character separator: k separators give k+1 pieces
RECURSIVE SplitFrom(_, _, _)
SplitFrom(t, sep, cur) ==
    IF t = <<>> THEN <<cur>>
    ELSE IF Head(t) = sep THEN <<cur>> \o SplitFrom(Tail(t), sep, <<>>)
    ELSE SplitFrom(Tail(t), sep, Append(cur, Head(t)))

Split(t, sep) == SplitFrom(t, sep, <<>>)

\* sep.join(parts)
RECURSIVE Join(_, _)
Join(parts, sep) ==
    IF parts = <<>> THEN <<>>
    ELSE IF Len(parts) = 1 THEN parts[1]
    ELSE parts[1] \o <<sep>> \o Join(Tail(parts), sep)

\* x in list
InSeq(x, s) == \E i \in 1..Len(s) : s[i] = x

(***************************************************************************)
(* Question Normalizer.                                                    *)
(***************************************************************************)
\* the loop of clean_question_text with every line kept unless it is a repeat
RECURSIVE UniqueLinesKeepEmpty(_, _)
UniqueLinesKeepEmpty(lines, unique_lines) ==
    IF lines = <<>> THEN unique_lines
    ELSE UniqueLinesKeepEmpty(Tail(lines),
            IF ~InSeq(Head(lines), unique_lines)
            THEN Append(unique_lines, Head(lines)) ELSE unique_lines)

\* for line in lines: if line and line not in unique_lines: unique_lines.append(line)
RECURSIVE UniqueLines(_, _)
UniqueLines(lines, unique_lines) ==
    IF lines = <<>> THEN unique_lines
    ELSE UniqueLines(Tail(lines),
            IF Head(lines) # <<>> /\ ~InSeq(Head(lines), unique_lines)
            THEN Append(unique_lines, Head(lines)) ELSE unique_lines)

\* clean_question_text(question_text); question_text is None or a text
clean_question_text(question_text) ==
    IF question_text = None \/ question_text[1] = <<>> THEN <<>>
    ELSE LET lines == Split(question_text[1], NL)
         IN  IF Len(lines) = 2 /\ lines[1] = lines[2] THEN lines[1]
             ELSE Join(UniqueLines(lines, <<>>), NL)

\* the store key of a question: self.clean_question_text(question_text.lower().strip())
normalize(question_text) == clean_question_text(Some(Strip(Lower(question_text))))


(***************************************************************************)
(* Texts of the model.  Every text of the model is written with the        *)
(* letters y e s n o a r (and the capitals Y N S), space and newline; the  *)
(* tables of src/src/config/config.py are given by their entries over      *)
(* these letters, the only entries that can occur in such a text.          *)
(***************************************************************************)
W_yes == <<"y", "e", "s">>
W_no == <<"n", "o">>
W_year == <<"y", "e", "a", "r">>
W_years == <<"y", "e", "a", "r", "s">>
W_area == <<"a", "r", "e", "a">>

\* FORM_STOP_WORDS
FORM_STOP_WORDS == {<<"a">>, <<"a", "n">>, <<"o", "r">>, <<"a", "s">>, <<"s", "o">>, <<"o", "n">>, <<"a", "r", "e">>, <<"a", "n", "y">>, <<"s", "o", "o", "n">>}

\* FORM_IMPORTANT_KEYWORDS, in dict order: category name and its keywords
FORM_IMPORTANT_KEYWORDS ==
    << [name |-> <<"l", "o", "c", "a", "t", "i", "o", "n">>, keywords |-> <<W_area>>],
       [name |-> <<"e", "x", "p", "e", "r", "i", "e", "n", "c", "e">>, keywords |-> <<W_year>>] >>

RECURSIVE Flatten(_)
Flatten(lists) == IF lists = <<>> THEN <<>> ELSE Head(lists) \o Flatten(Tail(lists))

\* FORM_IMPORTANT_KEYWORDS_FLAT
FORM_IMPORTANT_KEYWORDS_FLAT ==
    Flatten([i \in 1..Len(FORM_IMPORTANT_KEYWORDS) |-> FORM_IMPORTANT_KEYWORDS[i].keywords])

\* QUESTION_TYPES, in dict order: type, type.lower() and its indicators
QUESTION_TYPES ==
    << [type |-> "YES_NO", lower |-> <<"y", "e", "s", "_", "n", "o">>, indicators |-> <<W_yes, W_no>>],
       [type |-> "EXPERIENCE", lower |-> <<"e", "x", "p", "e", "r", "i", "e", "n", "c", "e">>, indicators |-> <<W_year>>] >>

\* KEY_CONCEPT_PATTERNS: concept.lower() and its patterns
KEY_CONCEPT_PATTERNS ==
    << [concept |-> "affirmative", patterns |-> <<W_yes>>],
       [concept |-> "negative", patterns |-> <<W_no>>] >>

\* MATCH_THRESHOLDS, MATCH_WEIGHTS, OPTION_MATCH_THRESHOLDS and
\* SEMANTIC_SIMILARITY_WEIGHTS, in hundredths
KEYWORD_MATCH_THRESHOLD == 50
COMBINED_SCORE_THRESHOLD == 60
FUZZY_MATCH_THRESHOLD == 80
KEYWORD_WEIGHT == 70
STRING_WEIGHT == 30
SEMANTIC_MATCH == 40
FUZZY_MATCH == 50
STEMMED_OVERLAP == 50
CONCEPT_OVERLAP == 30
SEQUENCE_SIMILARITY == 20
\* NLP_SETTINGS["STEM_CACHE_SIZE"]
STEM_CACHE_SIZE == 1000

(***************************************************************************)
(* str and re helpers.                                                     *)
(***************************************************************************)
\* text[i:].startswith(term), i counted from 1
MatchesAt(text, term, i) ==
    /\ i + Len(term) - 1 <= Len(text)
    /\ \A k \in 1..Len(term) : text[i + k - 1] = term[k]

\* term in text
Contains(text, term) == \E i \in 1..(Len(text) + 1) : MatchesAt(text, term, i)

StartsWith(text, prefix) == MatchesAt(text, prefix, 1)

EndsWith(text, suffix) ==
    Len(suffix) <= Len(text) /\ MatchesAt(text, suffix, Len(text) - Len(suffix) + 1)

\* any(p in text for p in patterns)
AnyIn(patterns, text) == \E i \in 1..Len(patterns) : Contains(text, patterns[i])

\* \w of the regular expressions, over the characters of the model
IsWordChar(c) == c \notin Whitespace

\* re.findall(r'\b\w+\b', text): the maximal runs of word characters
RECURSIVE FindWordsFrom(_, _)
FindWordsFrom(t, cur) ==
    IF t = <<>> THEN (IF cur = <<>> THEN <<>> ELSE <<cur>>)
    ELSE IF IsWordChar(Head(t)) THEN FindWordsFrom(Tail(t), Append(cur, Head(t)))
    ELSE (IF cur = <<>> THEN <<>> ELSE <<cur>>) \o FindWordsFrom(Tail(t), <<>>)

FindWords(text) == FindWordsFrom(text, <<>>)

\* [x for x in s if keep(x)] as SelectSeq, and the set of a list
SetOf(s) == {s[i] : i \in 1..Len(s)}

(***************************************************************************)
(* nltk.stem.PorterStemmer.stem, the library call of _extract_keywords and *)
(* _process_text_for_semantic_matching: words of at most two letters are   *)
(* returned as they are; step 1a (plural s), step 1c (final y) and step 5a *)
(* (final e).  The other steps rewrite suffixes (ed, ing, ational, ness,   *)
(* er, ll, ...) that no word of the model's texts carries.                 *)
(***************************************************************************)
Vowels == {"a", "e", "i", "o", "u"}

RECURSIVE IsConsonant(_, _)
IsConsonant(w, i) ==
    IF w[i] \in Vowels THEN FALSE
    ELSE IF w[i] = "y" THEN (IF i = 1 THEN TRUE ELSE ~IsConsonant(w, i - 1))
    ELSE TRUE

\* number of vowel-consonant sequences of a stem
Measure(w) == Cardinality({i \in 1..(Len(w) - 1) : ~IsConsonant(w, i) /\ IsConsonant(w, i + 1)})

EndsCVC(w) ==
    \/ /\ Len(w) >= 3
       /\ IsConsonant(w, Len(w) - 2) /\ ~IsConsonant(w, Len(w) - 1) /\ IsConsonant(w, Len(w))
       /\ w[Len(w)] \notin {"w", "x", "y"}
    \/ Len(w) = 2 /\ ~IsConsonant(w, 1) /\ IsConsonant(w, 2)

DropLast(w, n) == SubSeq(w, 1, Len(w) - n)

Step1a(w) ==
    IF EndsWith(w, <<"i", "e", "s">>) /\ Len(w) = 4 THEN DropLast(w, 1)
    ELSE IF EndsWith(w, <<"s", "s", "e", "s">>) THEN DropLast(w, 2)
    ELSE IF EndsWith(w, <<"i", "e", "s">>) THEN DropLast(w, 2)
    ELSE IF EndsWith(w, <<"s", "s">>) THEN w
    ELSE IF EndsWith(w, <<"s">>) THEN DropLast(w, 1)
    ELSE w

Step1c(w) ==
    IF EndsWith(w, <<"y">>) /\ Len(w) > 2 /\ IsConsonant(w, Len(w) - 1)
    THEN DropLast(w, 1) \o <<"i">> ELSE w

Step5a(w) ==
    IF EndsWith(w, <<"e">>)
    THEN LET stem == DropLast(w, 1)
         IN  IF Measure(stem) > 1 THEN stem
             ELSE IF Measure(stem) = 1 /\ ~EndsCVC(stem) THEN stem
             ELSE w
    ELSE w

\* the mutant of Stem that stems nothing
StemIdentity(word) == word

\* self.stemmer.stem(word)
Stem(word) == IF Len(word) <= 2 THEN word ELSE Step5a(Step1c(Step1a(word)))

(***************************************************************************)
(* Scores.  The code computes scores as floats; the model keeps them as    *)
(* exact fractions [n, d] with d > 0, thresholds and weights in            *)
(* hundredths.                                                             *)
(***************************************************************************)
RECURSIVE GCD(_, _)
GCD(a, b) == IF b = 0 THEN a ELSE GCD(b, a % b)

Frac(n, d) == LET g == GCD(n, d) IN [n |-> n \div g, d |-> d \div g]

Zero == [n |-> 0, d |-> 1]

\* x >= th / 100
AtLeast(x, th) == x.n * 100 >= th * x.d

\* x > y and x > th / 100
GT(x, y) == x.n * y.d > y.n * x.d
Above(x, th) == x.n * 100 > th * x.d

\* x + b / 100
Plus(x, b) == Frac(x.n * 100 + b * x.d, x.d * 100)

\* min(x, 1.0)
Cap(x) == IF x.n > x.d THEN [n |-> 1, d |-> 1] ELSE x

Min(a, b) == IF a <= b THEN a ELSE b
Max(a, b) == IF a >= b THEN a ELSE b

(***************************************************************************)
(* difflib.SequenceMatcher(None, a, b).ratio(): the longest matching block *)
(* (earliest in a, then earliest in b), then the blocks left and right of  *)
(* it; ratio = 2 * matches / (len(a) + len(b)), 1.0 for two empty texts.   *)
(* (autojunk needs 200 characters.)                                        *)
(***************************************************************************)
RECURSIVE CommonLen(_, _, _, _, _, _)
CommonLen(a, b, i, j, ahi, bhi) ==
    IF i <= ahi /\ j <= bhi /\ a[i] = b[j] THEN 1 + CommonLen(a, b, i + 1, j + 1, ahi, bhi)
    ELSE 0

\* the block <<i, j, size>> that starts at p = <<i, j>>
BlockAt(a, b, ahi, bhi, p) == <<p[1], p[2], CommonLen(a, b, p[1], p[2], ahi, bhi)>>

\* find_longest_match over a[alo..ahi], b[blo..bhi]: <<i, j, size>>
FindLongestMatch(a, b, alo, ahi, blo, bhi) ==
    BlockAt(a, b, ahi, bhi,
        CHOOSE p \in (alo..ahi) \X (blo..bhi) :
            \A q \in (alo..ahi) \X (blo..bhi) :
                \/ CommonLen(a, b, p[1], p[2], ahi, bhi) > CommonLen(a, b, q[1], q[2], ahi, bhi)
                \/ /\ CommonLen(a, b, p[1], p[2], ahi, bhi) = CommonLen(a, b, q[1], q[2], ahi, bhi)
                   /\ (p[1] < q[1] \/ (p[1] = q[1] /\ p[2] <= q[2])))

\* get_matching_blocks: the size of the longest block m and of the blocks found
\* left and right of it
RECURSIVE MatchCount(_, _, _, _, _, _)
MatchCountAround(a, b, alo, ahi, blo, bhi, m) ==
    IF m[3] = 0 THEN 0
    ELSE m[3] + MatchCount(a, b, alo, m[1] - 1, blo, m[2] - 1)
              + MatchCount(a, b, m[1] + m[3], ahi, m[2] + m[3], bhi)

MatchCount(a, b, alo, ahi, blo, bhi) ==
    IF alo > ahi \/ blo > bhi THEN 0
    ELSE MatchCountAround(a, b, alo, ahi, blo, bhi,
                          FindLongestMatch(a, b, alo, ahi, blo, bhi))

Ratio(a, b) ==
    IF Len(a) + Len(b) = 0 THEN [n |-> 1, d |-> 1]
    ELSE Frac(2 * MatchCount(a, b, 1, Len(a), 1, Len(b)), Len(a) + Len(b))

(***************************************************************************)
(* Keyword & Concept Extractor.  Each operator that stems takes the stem   *)
(* cache and returns it with the words it added.                           *)
(***************************************************************************)
\* self.stem_cache[word] = stemmed_word whatever the size of the cache
CachePut_unbounded(cache, word, stemmed_word) ==
    [w \in DOMAIN cache \cup {word} |-> IF w = word THEN stemmed_word ELSE cache[w]]

\* self.stem_cache[word] = stemmed_word, if the cache has room
CachePut(cache, word, stemmed_word) ==
    IF Cardinality(DOMAIN cache) < STEM_CACHE_SIZE
    THEN [w \in DOMAIN cache \cup {word} |-> IF w = word THEN stemmed_word ELSE cache[w]]
    ELSE cache

\* stemmed_word of a word: from the cache when the word is there
StemOf(cache, word) == IF word \in DOMAIN cache THEN cache[word] ELSE Stem(word)

\* the cache after a word was stemmed
Remember(cache, word) ==
    IF word \in DOMAIN cache THEN cache ELSE CachePut(cache, word, Stem(word))

\* the stemming loop of _extract_keywords and _process_text_for_semantic_matching
RECURSIVE StemAll(_, _, _)
StemAll(words, stemmed_words, cache) ==
    IF words = <<>> THEN [stemmed_words |-> stemmed_words, cache |-> cache]
    ELSE StemAll(Tail(words), Append(stemmed_words, StemOf(cache, Head(words))),
                 Remember(cache, Head(words)))

\* for term in FORM_IMPORTANT_KEYWORDS_FLAT: if term in text and term not in keywords
RECURSIVE AddImportant(_, _, _)
AddImportant(terms, text, keywords) ==
    IF terms = <<>> THEN keywords
    ELSE AddImportant(Tail(terms), text,
            IF Contains(text, Head(terms)) /\ ~InSeq(Head(terms), keywords)
            THEN Append(keywords, Head(terms)) ELSE keywords)

\* the "<type>_question" tags, in the order of QUESTION_TYPES
TypeTags(text) ==
    LET hit == SelectSeq(QUESTION_TYPES, LAMBDA qt : AnyIn(qt.indicators, text))
    IN  [i \in 1..Len(hit) |-> hit[i].lower \o <<"_", "q", "u", "e", "s", "t", "i", "o", "n">>]

\* the "category_<name>" tags, in the order of FORM_IMPORTANT_KEYWORDS
CategoryTags(text) ==
    LET hit == SelectSeq(FORM_IMPORTANT_KEYWORDS, LAMBDA cat : AnyIn(cat.keywords, text))
    IN  [i \in 1..Len(hit) |-> <<"c", "a", "t", "e", "g", "o", "r", "y", "_">> \o hit[i].name]

\* the keywords of the lowered text t whose words were stemmed to st: stop
\* words and one-letter words dropped, important terms and tags added
KeywordsOf(t, st) ==
    [keywords |-> AddImportant(FORM_IMPORTANT_KEYWORDS_FLAT, t,
                      SelectSeq(st.stemmed_words,
                                LAMBDA w : w \notin FORM_STOP_WORDS /\ Len(w) > 1))
                  \o TypeTags(t) \o CategoryTags(t),
     cache |-> st.cache]

\* _extract_keywords(text): [keywords, cache].  FORM_COMPOUND_PATTERNS,
\* NUMERIC_PATTERNS and the 'required' terms have no match in a text of the
\* model (each needs a letter or a digit the model's texts do not have).
_extract_keywords(text, cache) ==
    IF text = <<>> THEN [keywords |-> <<>>, cache |-> cache]
    ELSE KeywordsOf(Lower(text),
                    IF stemmer THEN StemAll(FindWords(Lower(text)), <<>>, cache)
                    ELSE [stemmed_words |-> FindWords(Lower(text)), cache |-> cache])

Count(k, s) == Cardinality({i \in 1..Len(s) : s[i] = k})

\* the weight of a keyword, doubled: 1.0, category 2.0, question type 2.5, duration 3.0
KeywordWeight(keyword) ==
    IF EndsWith(keyword, <<"y", "e", "a", "r", "s">>) \/ EndsWith(keyword, <<"m", "o", "n", "t", "h", "s">>) THEN 6
    ELSE IF EndsWith(keyword, <<"_", "q", "u", "e", "s", "t", "i", "o", "n">>) THEN 5
    ELSE IF StartsWith(keyword, <<"c", "a", "t", "e", "g", "o", "r", "y", "_">>) THEN 4
    ELSE 2

\* the sum over the keywords of S of weight * min (or max) of the two counts
RECURSIVE WeightSum(_, _, _, _)
WeightOf(k, keywords1, keywords2, smaller) ==
    KeywordWeight(k) * (IF smaller THEN Min(Count(k, keywords1), Count(k, keywords2))
                        ELSE Max(Count(k, keywords1), Count(k, keywords2)))

WeightSumFrom(k, S, keywords1, keywords2, smaller) ==
    WeightOf(k, keywords1, keywords2, smaller)
        + WeightSum(S \ {k}, keywords1, keywords2, smaller)

WeightSum(S, keywords1, keywords2, smaller) ==
    IF S = {} THEN 0
    ELSE WeightSumFrom(CHOOSE x \in S : TRUE, S, keywords1, keywords2, smaller)

\* weighted_matches / total_weight if total_weight > 0, else 0
Quotient(weighted_matches, total_weight) ==
    IF total_weight > 0 THEN Frac(weighted_matches, total_weight) ELSE Zero

\* _calculate_keyword_similarity(keywords1, keywords2)
_calculate_keyword_similarity(keywords1, keywords2) ==
    IF keywords1 = <<>> \/ keywords2 = <<>> THEN Zero
    ELSE Quotient(WeightSum(SetOf(keywords1) \cap SetOf(keywords2), keywords1, keywords2, TRUE),
                  WeightSum(SetOf(keywords1) \cup SetOf(keywords2), keywords1, keywords2, FALSE))

\* _determine_question_type(question_text)
_determine_question_type(question_text) ==
    LET t == Lower(question_text)
        hit == SelectSeq(QUESTION_TYPES, LAMBDA qt : AnyIn(qt.indicators, t))
    IN  IF hit # <<>> THEN hit[1].type ELSE "UNKNOWN"

\* _extract_years(text): each of its patterns starts with (\d+); the texts of
\* the model have no digit
_extract_years(text) == None

\* _count_job_keyword_matches(text, job_keywords)
_count_job_keyword_matches(text, job_keywords) ==
    Cardinality({i \in 1..Len(job_keywords) : Contains(Lower(text), job_keywords[i])})

\* the bonuses of _apply_context_adjustments, in hundredths
TypeBonus(question_type, saved_question) ==
    IF question_type = _determine_question_type(saved_question) /\ question_type # "UNKNOWN"
    THEN 10 ELSE 0

LengthBonus(question_text, saved_question) ==
    IF Min(Len(question_text), Len(saved_question)) * 10
           > 8 * Max(Len(question_text), Len(saved_question))
    THEN 5 ELSE 0

JobBonus(q1_job_matches, q2_job_matches) ==
    IF /\ q1_job_matches > 0 /\ q2_job_matches > 0
       /\ Min(q1_job_matches, q2_job_matches) * 10 > 7 * Max(q1_job_matches, q2_job_matches)
    THEN 10 ELSE 0

YearsBonus(question_type, years_current, years_saved) ==
    IF question_type = "EXPERIENCE" /\ years_current # None /\ years_saved # None
    THEN (IF years_current[1] - years_saved[1] \in -1..1 THEN 15
          ELSE IF years_current[1] - years_saved[1] \in -3..3 THEN 5 ELSE 0)
    ELSE 0

\* _extract_job_context_keywords(), when a job description is set: [keywords, cache]
_extract_job_context_keywords(cache) ==
    IF current_job_description # None /\ current_job_description[1] # <<>>
    THEN _extract_keywords(current_job_description[1], cache)
    ELSE [keywords |-> <<>>, cache |-> cache]

\* the adjusted score, given the keywords job of the job description
AdjustedWith(score, question_text, saved_question, question_type, job) ==
    [score |-> Cap(Plus(score,
                  TypeBonus(question_type, saved_question)
                  + LengthBonus(question_text, saved_question)
                  + JobBonus(_count_job_keyword_matches(question_text, job.keywords),
                             _count_job_keyword_matches(saved_question, job.keywords))
                  + YearsBonus(question_type, _extract_years(question_text),
                               _extract_years(saved_question)))),
     cache |-> job.cache]

\* _apply_context_adjustments(score, question_text, saved_question, question_type):
\* [score, cache]
_apply_context_adjustments(score, question_text, saved_question, question_type, cache) ==
    AdjustedWith(score, question_text, saved_question, question_type,
                 _extract_job_context_keywords(cache))
(***************************************************************************)
(* Option Resolver.                                                        *)
(***************************************************************************)
\* if options: (a list that is neither None nor empty)
Truthy(opt) == opt # None /\ opt[1] # <<>>

\* the concepts of KEY_CONCEPT_PATTERNS with a pattern in text (numeric_<n>
\* concepts need a digit)
KeyConcepts(text) ==
    {KEY_CONCEPT_PATTERNS[i].concept : i \in
        {j \in 1..Len(KEY_CONCEPT_PATTERNS) : AnyIn(KEY_CONCEPT_PATTERNS[j].patterns, text)}}

\* the result of _process_text_for_semantic_matching for the words stemmed to st
TextData(text, st) ==
    [stemmed_words |-> st.stemmed_words, tokens |-> FindWords(text),
     key_concepts |-> KeyConcepts(text), cache |-> st.cache]

\* tokens without the stop words
ContentWords(text) == SelectSeq(FindWords(text), LAMBDA w : w \notin FORM_STOP_WORDS)

\* _process_text_for_semantic_matching(text): [stemmed_words, tokens, key_concepts, cache]
_process_text_for_semantic_matching(text, cache) ==
    TextData(text, IF stemmer THEN StemAll(ContentWords(text), <<>>, cache)
                   ELSE [stemmed_words |-> ContentWords(text), cache |-> cache])

\* len(common) / len(all) when both are non-empty, else 0
Jaccard(s1, s2) ==
    IF s1 # {} /\ s2 # {} THEN Frac(Cardinality(s1 \cap s2), Cardinality(s1 \cup s2)) ELSE Zero

\* so * STEMMED_OVERLAP + co * CONCEPT_OVERLAP + ss * SEQUENCE_SIMILARITY
WeightedSimilarity(so, co, ss) ==
    Frac(STEMMED_OVERLAP * so.n * co.d * ss.d + CONCEPT_OVERLAP * co.n * so.d * ss.d
             + SEQUENCE_SIMILARITY * ss.n * so.d * co.d,
         100 * so.d * co.d * ss.d)

\* _calculate_semantic_similarity(text1_data, text2_data)
_calculate_semantic_similarity(text1_data, text2_data) ==
    WeightedSimilarity(
        Jaccard(SetOf(text1_data.stemmed_words), SetOf(text2_data.stemmed_words)),
        Jaccard(text1_data.key_concepts, text2_data.key_concepts),
        Ratio(Join(text1_data.tokens, SP), Join(text2_data.tokens, SP)))

\* the loop "for x in xs: if score(x) > best_score: best = x", best_score = 0 at
\* the start: the index of the first x with the highest score, 0 if no score is
\* above 0
FirstBest(scores) ==
    IF \E i \in 1..Len(scores) : GT(scores[i], Zero)
    THEN CHOOSE i \in 1..Len(scores) :
            /\ \A j \in 1..Len(scores) : ~GT(scores[j], scores[i])
            /\ \A j \in 1..(i - 1) : GT(scores[i], scores[j])
    ELSE 0

\* the semantic pass over the options: [similarities, cache]
RECURSIVE SemanticScores(_, _, _, _)
SemanticScoresWith(answer_tokens, options, similarities, option_tokens) ==
    SemanticScores(answer_tokens, Tail(options),
        Append(similarities, _calculate_semantic_similarity(answer_tokens, option_tokens)),
        option_tokens.cache)

SemanticScores(answer_tokens, options, similarities, cache) ==
    IF options = <<>> THEN [similarities |-> similarities, cache |-> cache]
    ELSE SemanticScoresWith(answer_tokens, options, similarities,
            _process_text_for_semantic_matching(Strip(Lower(Head(options))), cache))

\* the first of the indices in S
First(S) == CHOOSE i \in S : \A j \in S : i <= j

\* option_lower == answer_lower
ExactOptions(answer_lower, options) ==
    {i \in 1..Len(options) : Strip(Lower(options[i])) = answer_lower}

\* answer_lower in option_lower or option_lower in answer_lower
RelatedOptions(answer_lower, options) ==
    {i \in 1..Len(options) :
        \/ Contains(Strip(Lower(options[i])), answer_lower)
        \/ Contains(answer_lower, Strip(Lower(options[i])))}

\* the containment pass taking the last of the related options
ContainmentPassLast(options, related) ==
    IF related # {} THEN Some(options[CHOOSE i \in related : \A j \in related : j <= i])
    ELSE None

\* pass 4 of _find_closest_option: containment
ContainmentPass(options, related) ==
    IF related # {} THEN Some(options[First(related)]) ELSE None

\* pass 3 of _find_closest_option: the best fuzzy ratio, best its index
FuzzyPass(answer_lower, options, ratios, best) ==
    IF best # 0 /\ Above(ratios[best], FUZZY_MATCH) THEN Some(options[best])
    ELSE ContainmentPass(options, RelatedOptions(answer_lower, options))

FuzzyRatios(answer_lower, options) ==
    [i \in 1..Len(options) |-> Ratio(answer_lower, Lower(options[i]))]

\* passes 3 and 4 of _find_closest_option
FuzzyThenContainment(answer_lower, options) ==
    FuzzyPass(answer_lower, options, FuzzyRatios(answer_lower, options),
              FirstBest(FuzzyRatios(answer_lower, options)))

\* pass 2 of _find_closest_option, made when a stemmer is set: sem the
\* similarities of the options, best the index of the highest
SemanticPass(answer_lower, options, sem, best) ==
    IF best # 0 /\ Above(sem.similarities[best], SEMANTIC_MATCH)
    THEN [value |-> Some(options[best]), cache |-> sem.cache]
    ELSE [value |-> FuzzyThenContainment(answer_lower, options), cache |-> sem.cache]

SemanticThenFuzzy(answer_lower, options, sem) ==
    SemanticPass(answer_lower, options, sem, FirstBest(sem.similarities))

SemanticFrom(answer_lower, options, answer_tokens) ==
    SemanticThenFuzzy(answer_lower, options,
                      SemanticScores(answer_tokens, options, <<>>, answer_tokens.cache))

\* passes 1 to 4 of _find_closest_option, exact the options equal to the answer
ResolveIn(answer_lower, options, cache, exact) ==
    IF exact # {} THEN [value |-> Some(options[First(exact)]), cache |-> cache]
    ELSE IF stemmer
    THEN SemanticFrom(answer_lower, options,
                      _process_text_for_semantic_matching(answer_lower, cache))
    ELSE [value |-> FuzzyThenContainment(answer_lower, options), cache |-> cache]

\* _find_closest_option(answer, options, question_type): [value, cache]; value is
\* None or Some(option).  options is None or Some(list).
_find_closest_option(answer, options, cache) ==
    IF ~Truthy(options) THEN [value |-> Some(answer), cache |-> cache]
    ELSE ResolveIn(Strip(Lower(answer)), options[1], cache,
                   ExactOptions(Strip(Lower(answer)), options[1]))

(***************************************************************************)
(* Matcher.  self.responses is a sequence of records                       *)
(* [key, answer, options, source, timestamp] in dict order, keys unique.   *)
(***************************************************************************)
HasKey(store, key) == \E i \in 1..Len(store) : store[i].key = key

\* self.responses[key]
Record(store, key) == store[CHOOSE i \in 1..Len(store) : store[i].key = key]

\* keyword_similarity * KEYWORD_WEIGHT + string_similarity * STRING_WEIGHT
CombinedScore(keyword_similarity, string_similarity) ==
    Frac(KEYWORD_WEIGHT * keyword_similarity.n * string_similarity.d
             + STRING_WEIGHT * string_similarity.n * keyword_similarity.d,
         100 * keyword_similarity.d * string_similarity.d)

\* the loop that fills potential_matches: [potential_matches, cache];
\* potential_matches is a sequence of [saved_question, score]
RECURSIVE PotentialMatches(_, _, _, _, _, _)
\* the end of a round of the loop: the saved question is kept if its adjusted
\* score is above KEYWORD_MATCH_THRESHOLD
PotentialMatchesScored(store, question_text, question_keywords, question_type, potential_matches, adjusted) ==
    PotentialMatches(Tail(store), question_text, question_keywords, question_type,
        IF Above(adjusted.score, KEYWORD_MATCH_THRESHOLD)
        THEN Append(potential_matches,
                    [saved_question |-> Head(store).key, score |-> adjusted.score])
        ELSE potential_matches,
        adjusted.cache)

\* a round of the loop, saved the keywords of the saved question
PotentialMatchesSaved(store, question_text, question_keywords, question_type, potential_matches, saved) ==
    IF saved.keywords = <<>> \/ question_keywords = <<>>
    THEN PotentialMatches(Tail(store), question_text, question_keywords,
                          question_type, potential_matches, saved.cache)
    ELSE PotentialMatchesScored(store, question_text, question_keywords, question_type,
            potential_matches,
            _apply_context_adjustments(
                CombinedScore(_calculate_keyword_similarity(question_keywords, saved.keywords),
                              Ratio(question_text, Lower(Head(store).key))),
                question_text, Head(store).key, question_type, saved.cache))

PotentialMatches(store, question_text, question_keywords, question_type, potential_matches, cache) ==
    IF store = <<>> THEN [potential_matches |-> potential_matches, cache |-> cache]
    ELSE PotentialMatchesSaved(store, question_text, question_keywords, question_type,
            potential_matches, _extract_keywords(Lower(Head(store).key), cache))

\* an answer with the layer (path) that found it
Found(matched_option, path) ==
    [value |-> matched_option.value, cache |-> matched_option.cache, path |-> path,
     raised |-> FALSE]

\* the answer found, passed through the Option Resolver when options are given
Answered(answer, options, cache, path) ==
    Found(_find_closest_option(answer, options, cache), path)

\* self.responses[key]["answer"] and what follows it: a record without the
\* field raises KeyError, which find_best_match does not catch
AnsweredFrom(record, options, cache, path) ==
    IF "answer" \in DOMAIN record THEN Answered(record.answer, options, cache, path)
    ELSE [value |-> None, cache |-> cache, path |-> path, raised |-> TRUE]

Scores(potential_matches) ==
    [i \in 1..Len(potential_matches) |-> potential_matches[i].score]

FuzzyRatiosOf(store, question_text) ==
    [i \in 1..Len(store) |-> Ratio(question_text, Lower(store[i].key))]

\* the fuzzy layer, best the index of the first record with the highest ratio
FuzzyLayer(question_text, options, cache, best) ==
    IF best # 0 /\ Above(Ratio(question_text, Lower(responses[best].key)), FUZZY_MATCH_THRESHOLD)
    THEN AnsweredFrom(responses[best], options, cache, "fuzzy")
    ELSE [value |-> None, cache |-> cache, path |-> "none", raised |-> FALSE]

\* the layers with the keyword layer left out
KeywordLayerSkipped(question_text, options, pm, top) ==
    FuzzyLayer(question_text, options, pm.cache,
               FirstBest(FuzzyRatiosOf(responses, question_text)))

\* the keyword layer, top the index of the first potential match with the highest
\* score (potential_matches.sort(reverse=True) is stable), then the fuzzy layer
KeywordLayer(question_text, options, pm, top) ==
    IF top # 0 /\ Above(pm.potential_matches[top].score, COMBINED_SCORE_THRESHOLD)
    THEN AnsweredFrom(Record(responses, pm.potential_matches[top].saved_question),
                  options, pm.cache, "keyword")
    ELSE FuzzyLayer(question_text, options, pm.cache,
                    FirstBest(FuzzyRatiosOf(responses, question_text)))

\* the keyword layer and, after it, the exact lookup
KeywordLayerThenExact(question_text, options, cache, pm, top) ==
    IF top # 0 /\ Above(pm.potential_matches[top].score, COMBINED_SCORE_THRESHOLD)
    THEN AnsweredFrom(Record(responses, pm.potential_matches[top].saved_question),
                  options, pm.cache, "keyword")
    ELSE IF HasKey(responses, question_text)
    THEN AnsweredFrom(Record(responses, question_text), options, cache, "exact")
    ELSE [value |-> None, cache |-> pm.cache, path |-> "none", raised |-> FALSE]

\* the layers below the exact lookup, pm the potential matches
LayersWith(question_text, options, pm) ==
    KeywordLayer(question_text, options, pm, FirstBest(Scores(pm.potential_matches)))

LayersWithExactLast(question_text, options, cache, pm) ==
    KeywordLayerThenExact(question_text, options, cache, pm,
                          FirstBest(Scores(pm.potential_matches)))

\* the layers below the exact lookup, question the keywords of the question
LayersFrom(question_text, options, question) ==
    LayersWith(question_text, options,
        PotentialMatches(responses, question_text, question.keywords,
                         _determine_question_type(question_text), <<>>, question.cache))

LayersFromExactLast(question_text, options, cache, question) ==
    LayersWithExactLast(question_text, options, cache,
        PotentialMatches(responses, question_text, question.keywords,
                         _determine_question_type(question_text), <<>>, question.cache))

\* find_best_match after the error check and the normalization, with the exact
\* lookup made after the keyword layer instead of before it
FindInStoreExactLast(question_text, options, cache) ==
    LayersFromExactLast(question_text, options, cache,
                        _extract_keywords(question_text, cache))

\* find_best_match after the error check and the normalization (lines 177-276):
\* [value, cache, path]
FindInStore(question_text, options, cache) ==
    IF HasKey(responses, question_text)
    THEN AnsweredFrom(Record(responses, question_text), options, cache, "exact")
    ELSE LayersFrom(question_text, options, _extract_keywords(question_text, cache))

\* if error: (an error context that is neither None nor "")
HasError(error) == error # None /\ error[1] # ""

\* find_best_match with the error check dropped
find_best_match_ignoring_error(question_text, options, error, cache) ==
    FindInStore(normalize(question_text), options, cache)

\* find_best_match(question_text, options, error): [value, cache, path]
find_best_match(question_text, options, error, cache) ==
    IF HasError(error) THEN [value |-> None, cache |-> cache, path |-> "error", raised |-> FALSE]
    ELSE FindInStore(normalize(question_text), options, cache)
(***************************************************************************)
(* Store operations.  The file at self.json_path is                        *)
(* [state, responses]: state "json" (the dump of responses), "missing" or  *)
(* "partial" (truncated by open(..., 'w') and not completely written).     *)
(***************************************************************************)
\* what a run of _save_responses can meet: the dump is written; open raises and
\* the file stays as it was; json.dump raises after open truncated the file
WriteOutcomes == {"written", "open_failed", "dump_failed"}

\* _save_responses that gives up once a write has left the file truncated
_save_responses_once_failed(store, file, outcome) ==
    IF outcome = "written" /\ file.state # "partial"
    THEN [state |-> "json", responses |-> store]
    ELSE IF outcome = "dump_failed" THEN [state |-> "partial", responses |-> <<>>]
    ELSE file

\* _save_responses that dumps the record written last instead of the mapping
_save_responses_last_record(store, file, outcome) ==
    CASE outcome = "written" ->
            [state |-> "json",
             responses |-> IF store = <<>> THEN <<>> ELSE <<store[Len(store)]>>]
      [] outcome = "open_failed" -> file
      [] outcome = "dump_failed" -> [state |-> "partial", responses |-> <<>>]

\* _save_responses(): the content of the file after it; every exception is
\* caught and logged
_save_responses(store, file, outcome) ==
    CASE outcome = "written" -> [state |-> "json", responses |-> store]
      [] outcome = "open_failed" -> file
      [] outcome = "dump_failed" -> [state |-> "partial", responses |-> <<>>]

\* the record add_response stores
NewRecord(key, answer, options, source, now) ==
    [key |-> key, answer |-> answer, options |-> options, source |-> source,
     timestamp |-> now]

\* self.responses[key] = record: a dict keeps the place of a key it has
Put(store, record) ==
    IF HasKey(store, record.key)
    THEN [i \in 1..Len(store) |-> IF store[i].key = record.key THEN record ELSE store[i]]
    ELSE Append(store, record)

\* add_response with the record appended even when the key is already there
add_response_appending(store, question_text, answer, options, source, now) ==
    Append(store, NewRecord(normalize(question_text), answer, options, source, now))

\* add_response with a record already stored under the key kept as it is
add_response_keeping(store, question_text, answer, options, source, now) ==
    IF HasKey(store, normalize(question_text)) THEN store
    ELSE Append(store, NewRecord(normalize(question_text), answer, options, source, now))

\* add_response that starts the store afresh with the record it writes
add_response_resetting(store, question_text, answer, options, source, now) ==
    <<NewRecord(normalize(question_text), answer, options, source, now)>>

\* add_response(question_text, answer, options, source) up to the save: the store
\* after self.responses[key] = {...}
add_response(store, question_text, answer, options, source, now) ==
    Put(store, NewRecord(normalize(question_text), answer, options, source, now))

\* the result of get_gemini_response after a request that returned: saved is the
\* store with the answer added, matched_option the Option Resolver's result
Generated(saves, outcome, saved, matched_option) ==
    [value |-> matched_option.value,
     responses |-> IF saves THEN saved ELSE responses,
     file_content |-> IF saves THEN _save_responses(saved, file_content, outcome)
                      ELSE file_content,
     cache |-> matched_option.cache]

\* get_gemini_response that saves whatever saves says
get_gemini_response_always_saving(question_text, options, saves, completion, now, outcome, cache) ==
    IF completion = None
    THEN [value |-> None, responses |-> responses, file_content |-> file_content,
          cache |-> cache]
    ELSE Generated(TRUE, outcome,
            add_response(responses, question_text, Strip(completion[1]), options, "gemini", now),
            _find_closest_option(Strip(completion[1]), options, cache))

\* get_gemini_response(question_text, options, error, saves):
\* [value, responses, file_content, cache].  completion is None when the request
\* (or reading its text) raises, else Some(response.text); error only goes into
\* the prompt.  The except clause returns None for every exception.
get_gemini_response(question_text, options, saves, completion, now, outcome, cache) ==
    IF completion = None
    THEN [value |-> None, responses |-> responses, file_content |-> file_content,
          cache |-> cache]
    ELSE Generated(saves, outcome,
            add_response(responses, question_text, Strip(completion[1]), options, "gemini", now),
            _find_closest_option(Strip(completion[1]), options, cache))

\* the outcomes of the save after a request: a request that raises saves nothing
OutcomesOf(completion) == IF completion = None THEN {"written"} ELSE WriteOutcomes


(***************************************************************************)
(* Construction.  A path is a text.  A file is [state, responses]: state   *)
(* "missing", "json" (a dump of responses), "invalid" or "partial" (no     *)
(* JSON document) or "unreadable" (open raises PermissionError).           *)
(***************************************************************************)
\* FILE_PATHS["FORM_RESPONSES"] as the config defines it
FORM_RESPONSES ==
    << <<"s", "r", "c", "/", "d", "a", "t", "a", "/", "f", "o", "r", "m", "_", "r", "e", "s", "p", "o", "n", "s", "e", "s", ".", "j", "s", "o", "n">>, <<"d", "a", "t", "a", "/", "f", "o", "r", "m", "_", "r", "e", "s", "p", "o", "n", "s", "e", "s", ".", "j", "s", "o", "n">>, <<"f", "o", "r", "m", "_", "r", "e", "s", "p", "o", "n", "s", "e", "s", ".", "j", "s", "o", "n">> >>

\* FORM_RESPONSES_PATH = os.getenv('FORM_RESPONSES_PATH', 'form_responses.json')
FORM_RESPONSES_PATH == IF environ # None THEN environ[1] ELSE <<"f", "o", "r", "m", "_", "r", "e", "s", "p", "o", "n", "s", "e", "s", ".", "j", "s", "o", "n">>

\* the index of the last "/" of path, 0 when it has none
LastSlash(path) ==
    IF \E i \in 1..Len(path) : path[i] = "/"
    THEN CHOOSE i \in 1..Len(path) :
            path[i] = "/" /\ \A j \in (i + 1)..Len(path) : path[j] # "/"
    ELSE 0

\* head.rstrip('/')
RECURSIVE RStripSlash(_)
RStripSlash(head) ==
    IF head # <<>> /\ head[Len(head)] = "/" THEN RStripSlash(DropLast(head, 1)) ELSE head

\* os.path.dirname(path): the head up to the last "/", without its trailing
\* slashes unless it is made of slashes only
dirname(path) ==
    IF \A i \in 1..LastSlash(path) : path[i] = "/"
    THEN SubSeq(path, 1, LastSlash(path))
    ELSE RStripSlash(SubSeq(path, 1, LastSlash(path)))

\* os.path.exists(path)
exists(fs, path) == fs[path].state # "missing"

\* the candidate list after the three potential_paths.insert(0, ...): the list
\* of the config is changed in place.  custom_path is the json_path argument,
\* None or Some(path).
Inserted(list, custom_path) ==
    custom_path \o environ \o <<FORM_RESPONSES_PATH>> \o list

\* found_path: the first path of the list that exists, None when none does
FoundPath(fs, paths) ==
    IF \E i \in 1..Len(paths) : exists(fs, paths[i])
    THEN Some(paths[First({i \in 1..Len(paths) : exists(fs, paths[i])})])
    ELSE None

\* _load_responses(): [responses, file], file the content of the file after it.
\* A missing file is created empty, outcome tells how that write ends.
_load_responses(file, outcome) ==
    CASE file.state = "json" -> [responses |-> file.responses, file |-> file]
      [] file.state = "missing" ->
            [responses |-> <<>>, file |-> _save_responses(<<>>, file, outcome)]
      [] OTHER -> [responses |-> <<>>, file |-> file]

\* the manager that raised in its constructor: no object is made, the list of
\* the config keeps the inserts
Raised(fs, paths) ==
    [raised |-> TRUE, json_path |-> None, responses |-> <<>>, files |-> fs,
     potential_paths |-> paths]

\* lines 101-110: the responses loaded from the chosen path
Loaded(fs, paths, path, loaded) ==
    [raised |-> FALSE, json_path |-> Some(path), responses |-> loaded.responses,
     files |-> [fs EXCEPT ![path] = loaded.file], potential_paths |-> paths]

\* what os.makedirs(dir_path, exist_ok=True) can meet
MakedirsOutcomes == {"made", "denied"}

\* lines 89-99: the first candidate is taken when none exists and its directory
\* is made; os.makedirs('') raises FileNotFoundError, a directory that cannot be
\* made PermissionError, and neither is caught
Chosen(fs, paths, found_path, made, outcome) ==
    IF found_path # None
    THEN Loaded(fs, paths, found_path[1], _load_responses(fs[found_path[1]], outcome))
    ELSE IF dirname(paths[1]) = <<>> \/ made = "denied" THEN Raised(fs, paths)
    ELSE Loaded(fs, paths, paths[1], _load_responses(fs[paths[1]], outcome))

\* FormResponseManager(json_path, headless):
\* [raised, json_path, responses, files, potential_paths]
__init__(custom_path, headless, fs, list, made, outcome) ==
    IF headless
    THEN [raised |-> FALSE, json_path |-> None, responses |-> <<>>, files |-> fs,
          potential_paths |-> list]
    ELSE Chosen(fs, Inserted(list, custom_path), FoundPath(fs, Inserted(list, custom_path)),
                made, outcome)

\* the paths of the file system: the candidates of the config, the paths given
\* to the constructor and the path of the environment
ExplicitPaths == { <<"m", "y", ".", "j", "s", "o", "n">>, <<"m", "y", "/", "r", ".", "j", "s", "o", "n">> }
EnvPaths == { <<"e", "n", "v", "/", "r", ".", "j", "s", "o", "n">> }
Paths == {FORM_RESPONSES[i] : i \in 1..Len(FORM_RESPONSES)} \cup ExplicitPaths \cup EnvPaths

Missing == [state |-> "missing", responses |-> <<>>]

NoFiles == [p \in Paths |-> Missing]

\* the file at self.json_path after a save, for a manager that has the attribute
Stored ==
    files' = IF json_path = None THEN files
             ELSE [files EXCEPT ![json_path[1]] = file_content']

\* open(self.json_path, 'w') of a manager made headless raises AttributeError,
\* which _save_responses catches like a failed open
SaveOutcomes == IF json_path = None THEN {"open_failed"} ELSE WriteOutcomes

(***************************************************************************)
(* Spec: the engine driven by its callers.  Every call takes one tick of   *)
(* the clock; MaxClock bounds the length of a run.                         *)
(***************************************************************************)
MaxClock == 2

YesNo == <<<<"Y", "e", "s">>, <<"N", "o">>>>

\* the questions, option lists, error contexts, answers and completion texts of
\* the calls
Questions == {<<"Y", "e", "s", SP, "n", "o">>, <<SP, "y", "e", "s", SP, "n", "o", NL>>, <<"s", "o", "o", "n">>}
\* the questions looked up: one more, which no call stores
Lookups == Questions \cup {<<"a", "y", "e", SP, "e", "a", "s", "e">>}
OptionLists == {None, Some(YesNo)}
Errors == {None, Some(""), Some("Unknown error")}
Answers == {<<"N", "o">>, <<"s", "o">>}
Completions == {None, Some(<<"Y", "e", "s", SP>>), Some(<<"s", "o">>)}

StoredRecord(key, answer) ==
    [key |-> key, answer |-> answer, options |-> None, source |-> "manual", timestamp |-> 0]

\* the stores loaded by the constructor
InitStores ==
    { <<>>,
      <<StoredRecord(<<"n", "o", SP, "y", "e", "s">>, <<"N", "o">>)>>,
      <<StoredRecord(<<"s", "o", SP, "o", "n">>, <<"s", "o">>), StoredRecord(<<"y", "e", "s", SP, "n", "o">>, <<"Y", "e", "s">>)>> }

Init ==
    /\ responses \in InitStores
    /\ file_content = [state |-> "json", responses |-> responses]
    /\ stem_cache = <<>>
    /\ stemmer \in BOOLEAN
    /\ current_job_description = None
    /\ InitApplication
    /\ clock = 0
    /\ environ = None
    /\ potential_paths = <<FORM_RESPONSES_PATH>> \o FORM_RESPONSES
    /\ json_path = Some(FORM_RESPONSES[1])
    /\ files = [NoFiles EXCEPT ![FORM_RESPONSES[1]] = file_content]
    /\ constructed = TRUE
    /\ call = [op |-> "__init__"]

\* find_best_match that stores the answer it found under the question asked
Returned_storing(question_text, options, error, r) ==
    /\ responses' = IF r.value # None /\ r.path # "exact"
                    THEN add_response(responses, question_text, r.value[1], options,
                                      "manual", clock)
                    ELSE responses
    /\ file_content' = file_content
    /\ stem_cache' = r.cache
    /\ call' = [op |-> "find_best_match", question_text |-> question_text,
                options |-> options, error |-> error, raised |-> r.raised,
                result |-> r.value, path |-> r.path, before |-> responses]

\* the state after find_best_match returned r (or raised): it only reads
\* self.responses and never opens the file
Returned(question_text, options, error, r) ==
    /\ responses' = responses
    /\ file_content' = file_content
    /\ stem_cache' = r.cache
    /\ call' = [op |-> "find_best_match", question_text |-> question_text,
                options |-> options, error |-> error, raised |-> r.raised,
                result |-> r.value, path |-> r.path, before |-> responses]

FindBestMatch ==
    /\ clock < MaxClock
    /\ constructed
    /\ \E question_text \in Lookups, options \in OptionLists, error \in Errors :
        Returned(question_text, options, error,
                 find_best_match(question_text, options, error, stem_cache))
    /\ clock' = clock + 1
    /\ UNCHANGED <<stemmer, application, current_job_description, process, files, json_path, constructed>>

AddResponse ==
    /\ clock < MaxClock
    /\ constructed
    /\ \E question_text \in Questions, answer \in Answers, options \in OptionLists,
          outcome \in SaveOutcomes :
        /\ responses' = add_response(responses, question_text, answer, options, "manual", clock)
        /\ file_content' = _save_responses(responses', file_content, outcome)
        /\ call' = [op |-> "add_response", question_text |-> question_text,
                    answer |-> answer, options |-> options, outcome |-> outcome,
                    before |-> responses, file_before |-> file_content]
    /\ Stored
    /\ clock' = clock + 1
    /\ UNCHANGED <<stem_cache, stemmer, application, current_job_description, process, json_path,
                   constructed>>

\* the state after get_gemini_response returned r
Responded(question_text, options, error, saves, completion, r) ==
    /\ responses' = r.responses
    /\ file_content' = r.file_content
    /\ Stored
    /\ stem_cache' = r.cache
    /\ call' = [op |-> "get_gemini_response", question_text |-> question_text,
                options |-> options, error |-> error, saves |-> saves,
                completion |-> completion, result |-> r.value, before |-> responses]

GetGeminiResponse ==
    /\ clock < MaxClock
    /\ \E question_text \in Questions, options \in OptionLists,
          error \in {None, Some("Unknown error")}, saves \in BOOLEAN,
          completion \in Completions :
        \E outcome \in IF saves THEN OutcomesOf(completion) ELSE {"written"} :
            Responded(question_text, options, error, saves, completion,
                      get_gemini_response(question_text, options, saves, completion,
                                          clock, outcome, stem_cache))
    /\ clock' = clock + 1
    /\ UNCHANGED <<stemmer, application, current_job_description, process, json_path, constructed>>

Next == FindBestMatch \/ AddResponse \/ GetGeminiResponse

Spec == Init /\ [][Next]_vars

(***************************************************************************)
(* Field handlers of FormHandler.  A handler reads the field (its question,*)
(* its options, the validation error it shows), asks the engine and hands  *)
(* a value to the page.  Its result is                                     *)
(* [answer, source, written, matcher_error, ai_called, ai_error,           *)
(*  responses, file_content, cache]: source tells where the answer came    *)
(* from ("store", "ai", "first_option", "fixed" or "none"), written is the *)
(* value handed to the page (None when nothing is written).                *)
(***************************************************************************)
\* if answer: (a string that is neither None nor "")
HasAnswer(answer) == answer # None /\ answer[1] # <<>>

\* the first label that equals the answer, contains it or is contained in it,
\* letter case ignored
MatchingLabel(answer, labels) ==
    LET hits == {i \in 1..Len(labels) :
                    \/ Lower(answer) = Lower(labels[i])
                    \/ Contains(Lower(answer), Lower(labels[i]))
                    \/ Contains(Lower(labels[i]), Lower(answer))}
    IN  IF hits = {} THEN None ELSE Some(labels[CHOOSE i \in hits : \A j \in hits : i <= j])

\* what the engine gave a handler: found by find_best_match, or ai by
\* get_gemini_response when it was called
Asked(found, ai_called, ai, ai_error) ==
    [answer |-> IF ai_called THEN ai.value ELSE found.value,
     source |-> IF ai_called THEN (IF HasAnswer(ai.value) THEN "ai" ELSE "none")
                ELSE "store",
     matcher_error |-> None,
     ai_called |-> ai_called,
     ai_error |-> IF ai_called THEN ai_error ELSE None,
     responses |-> IF ai_called THEN ai.responses ELSE responses,
     file_content |-> IF ai_called THEN ai.file_content ELSE file_content,
     cache |-> IF ai_called THEN ai.cache ELSE found.cache]

\* get_gemini_response(question_text, options, error=ai_error), called if the
\* Matcher found no answer (or in any case, if always_ai)
AskAI(question_text, options, ai_error, always_ai, completion, now, outcome, found) ==
    Asked(found, always_ai \/ ~HasAnswer(found.value),
          get_gemini_response(question_text, options, TRUE, completion, now, outcome,
                              found.cache),
          ai_error)

\* the engine calls of a handler: find_best_match(question_text, options), with
\* no error context, then the generator
AskEngine(question_text, options, ai_error, always_ai, completion, now, outcome, cache) ==
    AskAI(question_text, options, ai_error, always_ai, completion, now, outcome,
          find_best_match(question_text, options, None, cache))

\* if not answer and options: answer = options[0]
WithFirstOption(asked, options) ==
    IF HasAnswer(asked.answer) THEN asked
    ELSE [asked EXCEPT !.answer = Some(options[1]), !.source = "first_option"]

\* the label clicked for the answer
RadioClick(r, options) == r @@ [written |-> MatchingLabel(r.answer[1], options)]

\* handle_radio(fieldset) for a fieldset with the legend raw_question_text, the
\* labels options (not empty) and the validation error shown (None: no error)
handle_radio(raw_question_text, options, error_message, completion, now, outcome, cache) ==
    RadioClick(
        WithFirstOption(
            AskEngine(clean_question_text(Some(Strip(raw_question_text))), Some(options),
                      error_message, FALSE, completion, now, outcome, cache),
            options),
        options)

\* the value handed to safe_set_value: the answer if there is one
SelectSet(asked) ==
    asked @@ [written |-> IF HasAnswer(asked.answer) THEN asked.answer ELSE None]

\* handle_select(select) for an empty select with the label raw_question_text
\* (cleaned by get_label_text and again by the handler) and the option values
\* options (not empty); the handler never looks at a validation error
handle_select(raw_question_text, options, completion, now, outcome, cache) ==
    SelectSet(
        AskEngine(clean_question_text(Some(normalize(raw_question_text))), Some(options),
                  None, FALSE, completion, now, outcome, cache))

\* the checkbox checked: the one whose label matches the answer; the first one
\* when none matches and the group shows an error
CheckboxCheck(asked, options, error_message, matched) ==
    IF matched = None /\ error_message # None
    THEN [asked EXCEPT !.source = "first_option"] @@ [written |-> Some(options[1])]
    ELSE asked @@ [written |-> matched]

CheckboxAnswered(asked, options, error_message) ==
    CheckboxCheck(asked, options, error_message,
                  IF HasAnswer(asked.answer) THEN MatchingLabel(asked.answer[1], options)
                  ELSE None)

\* handle_checkbox(element) for a checkbox group (fieldset) with the legend
\* raw_question_text, the labels options and the validation error shown
handle_checkbox(raw_question_text, options, error_message, completion, now, outcome, cache) ==
    CheckboxAnswered(
        AskEngine(clean_question_text(Some(Strip(raw_question_text))), Some(options),
                  error_message, FALSE, completion, now, outcome, cache),
        options, error_message)

\* the value set in a text field: "5" for a number field that shows the
\* whole-number error
TextSet(asked, five) ==
    IF five THEN [asked EXCEPT !.answer = Some(<<"5">>), !.source = "fixed"] @@
                 [written |-> Some(<<"5">>)]
    ELSE asked @@ [written |-> IF HasAnswer(asked.answer) THEN asked.answer ELSE None]

\* handle_text_input(input_field) for an empty field of type input_type with the
\* label raw_question_text: the generator is asked whenever the field shows an
\* error.  (The values 5, 10, 1, 0 tried when a number field keeps its error
\* after the write are not modelled.)
handle_text_input(raw_question_text, input_type, error_message, completion, now, outcome, cache) ==
    TextSet(
        AskEngine(clean_question_text(Some(Strip(Lower(raw_question_text)))), None,
                  error_message, error_message # None, completion, now, outcome, cache),
        input_type = "number" /\ error_message = Some("Enter a whole number"))

(***************************************************************************)
(* SpecField: the engine driven by the field handlers.                     *)
(***************************************************************************)
\* the validation errors a choice field and a text field show (None: no error)
ChoiceFieldErrors == {None, Some("Unknown error")}
TextFieldErrors == {None, Some("Unknown error"), Some("Enter a whole number")}
InputTypes == {"text", "number"}


\* the state after a handler returned result r
Handled(op, raw_question_text, options, error_message, r) ==
    /\ responses' = r.responses
    /\ file_content' = r.file_content
    /\ Stored
    /\ stem_cache' = r.cache
    /\ call' = [op |-> op, question_text |-> raw_question_text, options |-> options,
                error_message |-> error_message, matcher_error |-> r.matcher_error,
                ai_called |-> r.ai_called, ai_error |-> r.ai_error,
                answer |-> r.answer, source |-> r.source, written |-> r.written,
                before |-> responses]
    /\ clock' = clock + 1
    /\ UNCHANGED <<stemmer, application, current_job_description, process, json_path, constructed>>

HandleRadio ==
    /\ clock < MaxClock
    /\ \E raw_question_text \in Questions, error_message \in ChoiceFieldErrors,
          completion \in Completions :
      \E outcome \in OutcomesOf(completion) :
        Handled("handle_radio", raw_question_text, Some(YesNo), error_message,
                handle_radio(raw_question_text, YesNo, error_message, completion,
                             clock, outcome, stem_cache))

HandleSelect ==
    /\ clock < MaxClock
    /\ \E raw_question_text \in Questions, completion \in Completions :
      \E outcome \in OutcomesOf(completion) :
        Handled("handle_select", raw_question_text, Some(YesNo), None,
                handle_select(raw_question_text, YesNo, completion, clock, outcome,
                              stem_cache))

HandleCheckbox ==
    /\ clock < MaxClock
    /\ \E raw_question_text \in Questions, error_message \in ChoiceFieldErrors,
          completion \in Completions :
      \E outcome \in OutcomesOf(completion) :
        Handled("handle_checkbox", raw_question_text, Some(YesNo), error_message,
                handle_checkbox(raw_question_text, YesNo, error_message, completion,
                                clock, outcome, stem_cache))

HandleTextInput ==
    /\ clock < MaxClock
    /\ \E raw_question_text \in Questions, input_type \in InputTypes,
          error_message \in TextFieldErrors, completion \in Completions :
      \E outcome \in OutcomesOf(completion) :
        Handled("handle_text_input", raw_question_text, None, error_message,
                handle_text_input(raw_question_text, input_type, error_message,
                                  completion, clock, outcome, stem_cache))

NextField == HandleSelect \/ HandleRadio \/ HandleCheckbox \/ HandleTextInput

SpecField == Init /\ [][NextField]_vars

(***************************************************************************)
(* SpecNorm: the normalizer as a pure function.  Init draws a raw text,    *)
(* the actions apply clean_question_text and the key normalization to it.  *)
(***************************************************************************)
NormChars == {"y", "n", "Y", SP, NL}

NormTexts == UNION {[1..n -> NormChars] : n \in 0..MaxLen}

InitEngine ==
    /\ responses = <<>>
    /\ file_content = [state |-> "missing", responses |-> <<>>]
    /\ stem_cache = <<>>
    /\ stemmer = FALSE
    /\ current_job_description = None
    /\ InitApplication
    /\ clock = 0
    /\ environ = None
    /\ potential_paths = FORM_RESPONSES
    /\ json_path = None
    /\ files = NoFiles
    /\ constructed = TRUE

InitNorm ==
    /\ InitEngine
    /\ \E x \in {None} \cup {Some(t) : t \in NormTexts} :
            call = [op |-> "input", arg |-> x]

CleanQuestionText ==
    /\ call.op = "input"
    /\ call' = [op |-> "clean_question_text", arg |-> call.arg,
                result |-> clean_question_text(call.arg)]
    /\ UNCHANGED <<responses, file_content, stem_cache, stemmer, application,
                   current_job_description, clock, process, files, json_path,
                   constructed>>

Normalize ==
    /\ call.op = "input"
    /\ call.arg # None
    /\ call' = [op |-> "normalize", arg |-> call.arg,
                result |-> normalize(call.arg[1])]
    /\ UNCHANGED <<responses, file_content, stem_cache, stemmer, application,
                   current_job_description, clock, process, files, json_path,
                   constructed>>

NextNorm == CleanQuestionText \/ Normalize

SpecNorm == InitNorm /\ [][NextNorm]_vars

(***************************************************************************)
(* C9 and C10: the normalizer.                                             *)
(***************************************************************************)
\* C9 (as claimed): key normalization is idempotent: for every input text x,
\* normalize(normalize(x)) = normalize(x).
C9_NormalizeIdempotent ==
    call.op = "normalize" => normalize(call.result) = call.result

\* the lines of a result of clean_question_text: "" has no line
LinesOf(t) == IF t = <<>> THEN <<>> ELSE Split(t, NL)

\* index of the first occurrence of line l in lines
FirstIndex(l, lines) == CHOOSE i \in 1..Len(lines) :
                            lines[i] = l /\ \A j \in 1..(i - 1) : lines[j] # l

\* C10: the lines of clean_question_text's result are exactly the distinct
\* non-empty lines of the input in order of first occurrence: no line twice, no
\* empty line, no distinct non-empty input line lost; empty or None input
\* yields the empty string.
C10_CleanDistinctLines ==
    call.op = "clean_question_text" =>
        LET inl == IF call.arg = None THEN <<>> ELSE LinesOf(call.arg[1])
            out == LinesOf(call.result)
        IN  /\ \A i, j \in 1..Len(out) : i # j => out[i] # out[j]
            /\ \A i \in 1..Len(out) : out[i] # <<>>
            /\ {out[i] : i \in 1..Len(out)}
                   = {inl[i] : i \in 1..Len(inl)} \ {<<>>}
            /\ \A i, j \in 1..Len(out) :
                   i < j => FirstIndex(out[i], inl) < FirstIndex(out[j], inl)
            /\ (call.arg = None \/ call.arg = Some(<<>>)) => call.result = <<>>

\* C10 witness: an input with two empty lines between and after two distinct
\* lines was cleaned to the two lines.
C10_Witness ==
    /\ call.op = "clean_question_text"
    /\ call.arg = Some(<<"y", NL, NL, "n", NL>>)
    /\ call.result = <<"y", NL, "n">>
(***************************************************************************)
(* SpecLoad: a process from its start.  The constructor finds the file     *)
(* system as it is, then the manager it made is called.                    *)
(***************************************************************************)
\* a record of the file without its "answer" field
MalformedRecord(key) ==
    [key |-> key, options |-> None, source |-> "manual", timestamp |-> 0]

\* the files a path can hold when the process starts
FileContents ==
    { [state |-> "json", responses |->
          <<StoredRecord(<<"s", "o", SP, "o", "n">>, <<"s", "o">>), StoredRecord(<<"y", "e", "s", SP, "n", "o">>, <<"Y", "e", "s">>)>>],
      [state |-> "json", responses |->
          <<MalformedRecord(<<"y", "e", "s", SP, "n", "o">>), StoredRecord(<<"s", "o", SP, "o", "n">>, <<"s", "o">>)>>],
      [state |-> "json", responses |->
          <<StoredRecord(<<"s", "o", SP, "e", "a", "s", "e">>, <<"s", "o">>), StoredRecord(<<"a", "y", "e", SP, "e", "a", "r">>, <<"N", "o">>)>>],
      [state |-> "invalid", responses |-> <<>>],
      [state |-> "unreadable", responses |-> <<>>] }

\* the file systems of a start: no file, one file, or a file that cannot be
\* loaded at the first built-in candidate and a store at the second
FileSystems ==
    {NoFiles}
    \cup {[NoFiles EXCEPT ![p] = f] : p \in Paths, f \in FileContents}
    \cup {[NoFiles EXCEPT ![FORM_RESPONSES[1]] = f,
                          ![FORM_RESPONSES[2]] =
                              [state |-> "json", responses |->
                                  <<StoredRecord(<<"s", "o", SP, "o", "n">>, <<"s", "o">>),
                                    StoredRecord(<<"y", "e", "s", SP, "n", "o">>, <<"Y", "e", "s">>)>>]] :
            f \in {g \in FileContents : g.state # "json"}}

InitLoad ==
    /\ responses = <<>>
    /\ file_content = Missing
    /\ stem_cache = <<>>
    /\ stemmer = TRUE
    /\ current_job_description = None
    /\ InitApplication
    /\ clock = 0
    /\ environ \in {None} \cup {Some(p) : p \in EnvPaths}
    /\ potential_paths = FORM_RESPONSES
    /\ json_path = None
    /\ files \in FileSystems
    /\ constructed = FALSE
    /\ call = [op |-> "start"]

\* the state after the constructor returned (or raised) m
Constructed(custom_path, headless, m) ==
    /\ constructed' = ~m.raised
    /\ responses' = m.responses
    /\ json_path' = m.json_path
    /\ files' = m.files
    /\ file_content' = IF m.json_path = None THEN Missing ELSE m.files[m.json_path[1]]
    /\ potential_paths' = m.potential_paths
    /\ stem_cache' = <<>>
    /\ current_job_description' = None
    /\ call' = [op |-> "__init__", json_path |-> custom_path, headless |-> headless,
                raised |-> m.raised, files |-> files, potential_paths |-> potential_paths]

Construct ==
    /\ clock < MaxClock
    /\ \E custom_path \in {None} \cup {Some(p) : p \in ExplicitPaths}, headless \in BOOLEAN,
          made \in MakedirsOutcomes, outcome \in WriteOutcomes :
        Constructed(custom_path, headless,
                    __init__(custom_path, headless, files, potential_paths, made, outcome))
    /\ clock' = clock + 1
    /\ UNCHANGED <<stemmer, application, environ>>

NextLoad == Construct \/ AddResponse \/ FindBestMatch

SpecLoad == InitLoad /\ [][NextLoad]_vars

(***************************************************************************)
(* SpecResolve: the Option Resolver as a function of an answer and an      *)
(* option list, with and without a stemmer.                                *)
(***************************************************************************)
ResolverAnswers ==
    { <<>>, <<"Y", "e", "s">>, <<SP, "N", "O", SP>>, <<"n", "o">>, <<"s", "o">>, <<"e", "a", "r">>, <<"n", "e", "a", "r", SP, "a", SP, "s", "e", "a">>, <<"y", "e", "s", SP, "n", "o">>, <<"a", SP, "y", "e", "a", "r">>,
      <<"s", "e", "a", SP, "e", "a", "r">> }

\* the option lists, in the order the field shows them; the first is empty
ResolverOptions ==
    { <<>>, YesNo, << <<"N", "o">> >>, << <<"e", "a", "r">>, <<"s", "e", "a">> >>, << <<"s", "e", "a">>, <<"e", "a", "r">> >>,
      << <<"a">>, <<"Y", "e", "s">> >> }

InitResolve ==
    /\ responses = <<>>
    /\ file_content = Missing
    /\ stem_cache = <<>>
    /\ stemmer \in BOOLEAN
    /\ current_job_description = None
    /\ InitApplication
    /\ clock = 0
    /\ environ = None
    /\ potential_paths = FORM_RESPONSES
    /\ json_path = None
    /\ files = NoFiles
    /\ constructed = TRUE
    /\ \E answer \in ResolverAnswers, options \in ResolverOptions :
            call = [op |-> "input", answer |-> answer, options |-> options]

\* the state after _find_closest_option returned r
Resolved(answer, options, r) ==
    /\ stem_cache' = r.cache
    /\ call' = [op |-> "_find_closest_option", answer |-> answer, options |-> options,
                result |-> r.value]

FindClosestOption ==
    /\ call.op = "input"
    /\ Resolved(call.answer, call.options,
                _find_closest_option(call.answer, Some(call.options), stem_cache))
    /\ UNCHANGED <<responses, file_content, stemmer, application, current_job_description, clock,
                   process, files, json_path, constructed>>

SpecResolve == InitResolve /\ [][FindClosestOption]_vars


(***************************************************************************)
(* SpecStem: the two stemming loops on a stemming cache that is full or    *)
(* nearly full.  The cache is filled with the words "000", "001", ... as   *)
(* a process that has stemmed that many distinct words has it.             *)
(***************************************************************************)
Digits == <<"0", "1", "2", "3", "4", "5", "6", "7", "8", "9">>

\* the n-th filler word: the three digits of n
NumWord(n) == <<Digits[(n \div 100) + 1], Digits[((n \div 10) % 10) + 1], Digits[(n % 10) + 1]>>

\* self.stem_cache after the first k filler words were stemmed
FilledCache(k) == [w \in {NumWord(n) : n \in 0..(k - 1)} |-> Stem(w)]

\* the texts whose words are stemmed
StemTexts == {<<"y", "e", "s", SP, "n", "o">>, <<"e", "a", "s", "e", SP, "e", "a", "r">>, <<"s", "e", "a">>, <<"a", "y", "e", SP, "y", "e", "s">>, <<"s", "o", SP, "s", "e", "a">>}

InitStem ==
    /\ responses = <<>>
    /\ file_content = Missing
    /\ stemmer = TRUE
    /\ current_job_description = None
    /\ InitApplication
    /\ clock = 0
    /\ environ = None
    /\ potential_paths = FORM_RESPONSES
    /\ json_path = None
    /\ files = NoFiles
    /\ constructed = TRUE
    /\ \E k \in {STEM_CACHE_SIZE - 2, STEM_CACHE_SIZE - 1, STEM_CACHE_SIZE} :
        stem_cache = FilledCache(k)
    /\ call = [op |-> "start"]

\* the state after a stemming loop returned stemmed_words and left cache
Stemmed(op, text, stemmed_words, cache) ==
    /\ stem_cache' = cache
    /\ call' = [op |-> op, text |-> text, result |-> stemmed_words]
    /\ clock' = clock + 1
    /\ UNCHANGED <<responses, file_content, stemmer, application, current_job_description, process,
                   files, json_path, constructed>>

ExtractKeywords ==
    /\ clock < MaxClock
    /\ \E text \in StemTexts :
        Stemmed("_extract_keywords", text, _extract_keywords(text, stem_cache).keywords,
                _extract_keywords(text, stem_cache).cache)

ProcessTextForSemanticMatching ==
    /\ clock < MaxClock
    /\ \E text \in StemTexts :
        Stemmed("_process_text_for_semantic_matching", text,
                _process_text_for_semantic_matching(text, stem_cache).stemmed_words,
                _process_text_for_semantic_matching(text, stem_cache).cache)

NextStem == ExtractKeywords \/ ProcessTextForSemanticMatching

SpecStem == InitStem /\ [][NextStem]_vars

(***************************************************************************)
(* SpecApply: the application manager.  process_job_cards_batch walks the  *)
(* job cards; process_job_card opens a card and, after Easy Apply, runs    *)
(* _apply_with_retry, whose fill_in_details loops over handle_form_fields  *)
(* and handle_navigation until handle_navigation returns True.  The loop   *)
(* has no bound, so its two halves are steps of their own and current_job  *)
(* holds the position: pc, the card's ember_id, the attempt of             *)
(* _apply_with_retry, the page the modal shows and whether Submit was      *)
(* clicked.  What the field handlers do to the store is SpecField's        *)
(* subject and is left out here.                                           *)
(***************************************************************************)
\* _apply_with_retry(job_title, job_trace_id, max_attempts=2)
max_attempts == 2

\* the ember ids of the job cards
EmberIds == {"ember41", "ember42"}

\* what get_job_description returns: "" when it finds none
Descriptions == {<<>>, <<"a", SP, "j", "o", "b">>}

\* what the Easy Apply modal shows: the Submit, Review or Next button; Next
\* with a validation error that stays ("error"); the job safety dialog; no
\* modal; a modal without navigation button; a closed page, whose queries raise
Pages == {"submit", "review", "next", "error", "safety_dialog", "no_modal", "no_buttons",
          "closed"}

\* the ways through process_job_card up to the application: the early returns
\* (card not connected, click failed, already applied, title filtered), an
\* exception before the description is read, no Easy Apply button, an
\* exception in generate_custom_resume before its try block, Easy Apply clicked
EarlyReturns == {"not_connected", "click_failed", "already_applied", "filtered", "raised"}
CardOutcomes == EarlyReturns \cup {"not_easy_apply", "resume_raised", "easy_apply"}

\* the engine, which the application manager leaves alone but for
\* current_job_description
engine == <<responses, file_content, stem_cache, stemmer, clock, process, files, json_path,
            constructed>>

InitApply ==
    /\ InitEngine
    /\ call = [op |-> "start"]

\* self.stats[key] += 1
Bump(key) == [stats EXCEPT ![key] = @ + 1]

\* if job_description: response_manager.current_job_description = job_description
Described(job_description) ==
    IF job_description # <<>> THEN Some(job_description) ELSE current_job_description

\* process_job_card that returns without adding the card to processed_ids
Returned_card_unmarked(ember_id, result, path, description, counters, submitted) ==
    /\ processed_ids' = processed_ids
    /\ stats' = counters
    /\ current_job_description' = description
    /\ current_job' = [pc |-> "idle"]
    /\ call' = [op |-> "process_job_card", ember_id |-> ember_id, result |-> result,
                path |-> path, submitted |-> submitted]
    /\ UNCHANGED engine

\* the return of process_job_card(card, ember_id, ...): every return statement
\* follows processed_ids.add(ember_id)
Returned_card(ember_id, result, path, description, counters, submitted) ==
    /\ processed_ids' = processed_ids \cup {ember_id}
    /\ stats' = counters
    /\ current_job_description' = description
    /\ current_job' = [pc |-> "idle"]
    /\ call' = [op |-> "process_job_card", ember_id |-> ember_id, result |-> result,
                path |-> path, submitted |-> submitted]
    /\ UNCHANGED engine

\* process_job_card up to the call of _apply_with_retry
process_job_card(ember_id, outcome, job_description, page) ==
    CASE outcome \in EarlyReturns ->
            Returned_card(ember_id, FALSE, outcome, current_job_description,
                          IF outcome = "already_applied" THEN Bump("already_applied")
                          ELSE stats, FALSE)
      [] outcome = "not_easy_apply" ->
            Returned_card(ember_id, TRUE, outcome, None, Bump("skipped"), FALSE)
      [] outcome = "resume_raised" ->
            Returned_card(ember_id, FALSE, outcome, Described(job_description), stats, FALSE)
      [] outcome = "easy_apply" ->
            /\ current_job_description' = Described(job_description)
            /\ current_job' = [pc |-> "handle_form_fields", ember_id |-> ember_id,
                               attempt |-> 0, page |-> page, submitted |-> FALSE]
            /\ call' = [op |-> "click_easy_apply", ember_id |-> ember_id]
            /\ UNCHANGED <<processed_ids, stats, engine>>

\* the body of the loop of process_job_cards_batch for one card: a card in
\* processed_ids is skipped.  generate_custom_resume is only called with a
\* job description.
ProcessJobCardsBatch ==
    /\ current_job.pc = "idle"
    /\ \E ember_id \in EmberIds :
        IF ember_id \in processed_ids
        THEN /\ call' = [op |-> "skip", ember_id |-> ember_id]
             /\ UNCHANGED <<application, current_job_description, engine>>
        ELSE \E outcome \in CardOutcomes, job_description \in Descriptions, page \in Pages :
                /\ outcome = "resume_raised" => job_description # <<>>
                /\ process_job_card(ember_id, outcome, job_description, page)

\* the end of one fill_in_details call inside _apply_with_retry: True ends
\* the retries and counts the job as processed, False leads to the next
\* attempt or, after max_attempts, to the clean-up without counting
FillReturned(result, submitted) ==
    IF result
    THEN Returned_card(current_job.ember_id, TRUE, "applied", None, Bump("processed"),
                       submitted)
    ELSE IF current_job.attempt + 1 < max_attempts
    THEN /\ current_job' = [current_job EXCEPT !.pc = "handle_form_fields",
                                               !.attempt = @ + 1]
         /\ call' = [op |-> "fill_in_details", result |-> FALSE]
         /\ UNCHANGED <<processed_ids, stats, current_job_description, engine>>
    ELSE Returned_card(current_job.ember_id, TRUE, "failed", None, stats, submitted)

\* the first half of the loop of fill_in_details: the queries of the page
\* (they raise on a closed page, and the except clause returns False) and
\* handle_form_fields, whose result is not looked at
HandleFormFields ==
    /\ current_job.pc = "handle_form_fields"
    /\ IF current_job.page = "closed"
       THEN FillReturned(FALSE, current_job.submitted)
       ELSE /\ current_job' = [current_job EXCEPT !.pc = "handle_navigation"]
            /\ call' = [op |-> "handle_form_fields"]
            /\ UNCHANGED <<processed_ids, stats, current_job_description, engine>>

\* handle_navigation(): [result, clicked, page], page being what the modal
\* shows afterwards
handle_navigation(page) ==
    CASE page = "safety_dialog" -> [result |-> FALSE, clicked |-> "continue", page |-> "next"]
      [] page = "no_modal" -> [result |-> TRUE, clicked |-> "nothing", page |-> page]
      [] page = "submit" -> [result |-> TRUE, clicked |-> "submit", page |-> "no_modal"]
      [] page = "review" -> [result |-> FALSE, clicked |-> "review", page |-> "submit"]
      [] page = "next" -> [result |-> FALSE, clicked |-> "next", page |-> "review"]
      [] page = "error" -> [result |-> FALSE, clicked |-> "next", page |-> "error"]
      [] page = "no_buttons" -> [result |-> TRUE, clicked |-> "nothing", page |-> page]

\* the state after handle_navigation returned nav inside fill_in_details
Navigated(nav) ==
    IF nav.result
    THEN FillReturned(TRUE, nav.clicked = "submit")
    ELSE /\ current_job' = [current_job EXCEPT !.pc = "handle_form_fields",
                                               !.page = nav.page]
         /\ call' = [op |-> "handle_navigation", result |-> FALSE, clicked |-> nav.clicked]
         /\ UNCHANGED <<processed_ids, stats, current_job_description, engine>>

\* the second half of the loop of fill_in_details
HandleNavigation ==
    /\ current_job.pc = "handle_navigation"
    /\ Navigated(handle_navigation(current_job.page))

NextApply == ProcessJobCardsBatch \/ HandleFormFields \/ HandleNavigation

SpecApply == InitApply /\ [][NextApply]_vars

\* the program runs on while it has a statement to run
SpecApplyFair ==
    SpecApply /\ WF_vars(HandleFormFields) /\ WF_vars(HandleNavigation)
(***************************************************************************)
(* C1 and C2: the Matcher's error bypass and its exact lookup.             *)
(***************************************************************************)
\* C1: find_best_match called with a non-empty error context returns None, also
\* when the normalized question is an exact key of the store, and it leaves the
\* store unchanged.
C1_ErrorContextReturnsNone ==
    (call.op = "find_best_match" /\ call.error # None /\ call.error # Some(""))
        => call.result = None /\ responses = call.before

\* C1 witness: find_best_match was called with an error context for a question
\* whose normalized text is a key of the store, and returned None.
C1_Witness ==
    /\ call.op = "find_best_match"
    /\ call.error = Some("Unknown error")
    /\ HasKey(responses, normalize(call.question_text))
    /\ call.result = None

\* C2: when find_best_match is called without error context and the normalized
\* question is a key of the store, the result is derived from that record only:
\* its answer when no options are given, else the Option Resolver's result for
\* that answer against the options (possibly None), whatever the other records.
C2_ExactKeyDecides ==
    (/\ call.op = "find_best_match"
     /\ call.error \in {None, Some("")}
     /\ HasKey(call.before, normalize(call.question_text)))
        => LET record == Record(call.before, normalize(call.question_text))
           IN  call.result =
                   IF call.options # None /\ call.options[1] # <<>>
                   THEN _find_closest_option(record.answer, call.options, stem_cache).value
                   ELSE Some(record.answer)

\* C2 witness: an exact hit was answered from its record while the store also
\* held, earlier in its order, a record with the same words and another answer.
C2_Witness ==
    /\ call.op = "find_best_match"
    /\ call.error = None
    /\ call.question_text = <<"Y", "e", "s", SP, "n", "o">>
    /\ Len(call.before) >= 2
    /\ call.before[1].key = <<"n", "o", SP, "y", "e", "s">> /\ call.before[1].answer = <<"N", "o">>
    /\ call.before[2].key = <<"y", "e", "s", SP, "n", "o">>
    /\ call.result = Some(call.before[2].answer)

\* C2 witness of the "possibly None" case: the record's answer matches none of
\* the options given.
C2_WitnessNone ==
    /\ call.op = "find_best_match"
    /\ call.error = None
    /\ HasKey(call.before, normalize(call.question_text))
    /\ call.options = Some(YesNo)
    /\ call.result = None

(***************************************************************************)
(* C4 to C8: the AI generator and the store.                               *)
(***************************************************************************)
\* C4 (as claimed): when the completion call raises, get_gemini_response returns
\* the first listed option if a non-empty option list was given, and None if no
\* options were given.
C4_FailureReturnsFirstOption ==
    (call.op = "get_gemini_response" /\ call.completion = None)
        => call.result = IF call.options # None /\ call.options[1] # <<>>
                         THEN Some(call.options[1][1]) ELSE None

\* C5 (as claimed): when the completion call succeeds and a non-empty option list
\* was given, get_gemini_response never returns None.
C5_SuccessNeverNoneWithOptions ==
    (/\ call.op = "get_gemini_response"
     /\ call.completion # None
     /\ call.options # None /\ call.options[1] # <<>>)
        => call.result # None

\* the records of store under key
RecordsWithKey(store, key) == {i \in 1..Len(store) : store[i].key = key}

\* C6: a successful get_gemini_response(q) with saving enabled, on a store without
\* the key normalize(q), leaves the store with exactly one more record, keyed by
\* normalize(q) and holding the AI answer, every other record unchanged; with
\* saving disabled the store is unchanged.
C6_GeneratorAddsOneRecord ==
    (call.op = "get_gemini_response" /\ call.completion # None)
        => LET key == normalize(call.question_text)
           IN  /\ (call.saves /\ ~HasKey(call.before, key))
                    => /\ Len(responses) = Len(call.before) + 1
                       /\ SubSeq(responses, 1, Len(call.before)) = call.before
                       /\ RecordsWithKey(responses, key) = {Len(responses)}
                       /\ responses[Len(responses)].answer = Strip(call.completion[1])
               /\ ~call.saves => responses = call.before

\* C6 witness: a saving call on a non-empty store without the key added a record.
C6_Witness ==
    /\ call.op = "get_gemini_response"
    /\ call.completion = Some(<<"Y", "e", "s", SP>>)
    /\ call.saves
    /\ call.before # <<>>
    /\ ~HasKey(call.before, normalize(call.question_text))
    /\ responses[Len(responses)].answer = <<"Y", "e", "s">>

\* C7: after get_gemini_response(q, options) succeeded with saving enabled and
\* returned a value r other than None, an immediately following
\* find_best_match(q, options) without error context returns r, from the exact
\* lookup in the store; also when the key held another answer before.
C7_GeneratedAnswerIsFoundNext ==
    [][(/\ call.op = "get_gemini_response"
        /\ call.completion # None /\ call.saves /\ call.result # None
        /\ call'.op = "find_best_match"
        /\ call'.question_text = call.question_text
        /\ call'.options = call.options
        /\ call'.error = None)
            => (call'.result = call.result /\ call'.path = "exact")]_vars

\* C7 witness: find_best_match answered "so" from the record that a saving
\* get_gemini_response wrote, one call earlier, over the answer "Yes" loaded from
\* the file (the file still holds it: the save could not open the file).
C7_Witness ==
    /\ call.op = "find_best_match"
    /\ call.error = None
    /\ call.path = "exact"
    /\ call.result = Some(<<"s", "o">>)
    /\ LET record == Record(call.before, normalize(call.question_text))
       IN  /\ record.source = "gemini"
           /\ record.timestamp = clock - 2
           /\ record.options = call.options
    /\ file_content.state = "json"
    /\ HasKey(file_content.responses, normalize(call.question_text))
    /\ Record(file_content.responses, normalize(call.question_text)).answer = <<"Y", "e", "s">>
    /\ Record(file_content.responses, normalize(call.question_text)).source = "manual"

\* whitespace around a question, and two questions that differ only in letter
\* case or in the whitespace around them
Margins == {<<>>, <<SP>>, <<NL>>}

DifferOnlyInCaseOrMargins(q1, q2) ==
    \E a, b, c, d \in Margins : a \o Lower(q1) \o b = c \o Lower(q2) \o d

\* C8: add_response called twice with the same question and answer leaves exactly
\* one record for the normalized key, and the store is as large after the second
\* call as after the first; questions that differ only in letter case or in
\* surrounding whitespace map to the same key.
C8_SecondAddKeepsSize ==
    [][(/\ call.op = "add_response"
        /\ call'.op = "add_response"
        /\ DifferOnlyInCaseOrMargins(call.question_text, call'.question_text)
        /\ call'.answer = call.answer)
            => (/\ normalize(call'.question_text) = normalize(call.question_text)
                /\ Len(responses') = Len(responses)
                /\ Cardinality(RecordsWithKey(responses', normalize(call.question_text))) = 1)]_vars

\* C8 witness: the second of two add_response calls for one key was made with the
\* question in another case and with whitespace around it, on a store of two
\* records.
C8_Witness ==
    /\ call.op = "add_response"
    /\ call.question_text = <<SP, "y", "e", "s", SP, "n", "o", NL>>
    /\ clock = 2
    /\ Len(call.before) = 2
    /\ call.before[1].key = <<"n", "o", SP, "y", "e", "s">>
    /\ call.before[2].key = <<"y", "e", "s", SP, "n", "o">>
    /\ call.before[2].source = "manual"
    /\ call.before[2].timestamp = 0
    /\ call.before[2].answer = call.answer
    /\ Len(responses) = 2

(***************************************************************************)
(* C3: the field handlers and a field that shows a validation error.       *)
(***************************************************************************)
HandlerOps == {"handle_radio", "handle_checkbox", "handle_text_input"}

\* C3 (as claimed): a handler of a field that shows a validation error calls the
\* Matcher with that error as error context and then the AI generator with the
\* same error, so an answer read from the store is never the value written to a
\* field that shows a validation error.
C3_ErrorFieldNeverGetsStoreAnswer ==
    (call.op \in HandlerOps /\ call.error_message # None)
        => /\ call.matcher_error = call.error_message
           /\ call.ai_called /\ call.ai_error = call.error_message
           /\ ~(call.source = "store" /\ call.written # None)

\* C3, its last part alone: an answer read from the store is never the value
\* written to a field that shows a validation error.
C3_NoStoreAnswerOnErrorField ==
    (call.op \in HandlerOps /\ call.error_message # None)
        => ~(call.source = "store" /\ call.written # None)


(***************************************************************************)
(* Construction and persistence.                                           *)
(***************************************************************************)
\* the candidates a constructor call searched, in the order explicit path,
\* environment path, configured default path, built-in fallback locations
SearchOrder == Inserted(FORM_RESPONSES, call.json_path)

\* C11: constructing the manager never raises and yields an empty mapping when
\* no candidate file exists, or when the file it chose is unreadable or holds
\* invalid JSON
C11_ConstructionDegradesToEmpty ==
    (/\ call.op = "__init__"
     /\ ~call.headless
     /\ LET found_path == FoundPath(call.files, potential_paths)
        IN \/ found_path = None
           \/ call.files[found_path[1]].state \in {"unreadable", "invalid"})
    => (~call.raised /\ constructed /\ responses = <<>>)

\* C12: the mapping loaded by the constructor is the content of the first
\* candidate, in the order explicit, environment, default, built-in, that
\* exists, is readable and parses as JSON
C12_FirstLoadableCandidateWins ==
    (call.op = "__init__" /\ ~call.headless /\ ~call.raised)
    => \A i \in 1..Len(SearchOrder) :
          (/\ call.files[SearchOrder[i]].state = "json"
           /\ \A j \in 1..(i - 1) : call.files[SearchOrder[j]].state # "json")
          => responses = call.files[SearchOrder[i]].responses

\* the dump of a store
Dump(store) == [state |-> "json", responses |-> store]

\* C13: when the file write of add_response fails, the record is in the
\* in-memory mapping all the same and the next lookup of the question returns
\* its answer; an add_response made after a failed write writes the file again
C13_FailedWriteKeepsRecord ==
    call.op = "add_response" =>
        /\ call.outcome # "written" =>
              /\ HasKey(responses, normalize(call.question_text))
              /\ Record(responses, normalize(call.question_text)).answer = call.answer
              /\ find_best_match(call.question_text, None, None, stem_cache).value
                    = Some(call.answer)
        /\ (call.outcome = "written" /\ call.file_before # Dump(call.before)) =>
              file_content = Dump(responses)

\* an add_response that wrote the whole store after the write of the
\* add_response before it had left the file truncated
C13_Witness ==
    /\ call.op = "add_response"
    /\ call.outcome = "written"
    /\ call.file_before.state = "partial"
    /\ Len(call.before) = Len(responses)
    /\ file_content = Dump(responses)
    /\ Len(responses) = 2

\* C14: after an add_response whose write succeeds the file holds the complete
\* in-memory mapping, whatever the constructor loaded the manager from
C14_FileHoldsWholeMapping ==
    (call.op = "add_response" /\ call.outcome = "written") =>
        /\ file_content = Dump(responses)
        /\ json_path # None
        /\ files[json_path[1]] = Dump(responses)

\* an add_response that added a third record to a store loaded from a file
C14_Witness ==
    /\ call.op = "add_response"
    /\ call.outcome = "written"
    /\ Len(call.before) = 2
    /\ Len(responses) = 3
    /\ call.file_before = Dump(call.before)
    /\ files[json_path[1]].responses = responses

\* C15: find_best_match leaves the in-memory mapping and the store file as
\* they were, on the error bypass and on the exact, keyword, fuzzy and no-match
\* paths
C15_FindLeavesStoreUnchanged ==
    [][(call'.op = "find_best_match" /\ clock' = clock + 1) =>
            /\ call'.path \in {"error", "exact", "keyword", "fuzzy", "none"}
            /\ responses' = responses
            /\ file_content' = file_content
            /\ files' = files]_vars

\* a lookup that answered from a record found by the fuzzy layer
C15_Witness ==
    /\ call.op = "find_best_match"
    /\ call.path = "fuzzy"
    /\ call.result # None
    /\ responses = call.before
    /\ Len(responses) = 2
    /\ file_content = Dump(responses)

(***************************************************************************)
(* Matcher layers.                                                         *)
(***************************************************************************)
\* the adjusted combined score of a stored key for a normalized question; a key
\* is not scored when it or the question has no keywords
ScoreOf(question_text, saved_question) ==
    LET question_keywords == _extract_keywords(question_text, <<>>).keywords
        saved_keywords == _extract_keywords(Lower(saved_question), <<>>).keywords
    IN  IF question_keywords = <<>> \/ saved_keywords = <<>> THEN None
        ELSE Some(_apply_context_adjustments(
                    CombinedScore(
                        _calculate_keyword_similarity(question_keywords, saved_keywords),
                        Ratio(question_text, Lower(saved_question))),
                    question_text, saved_question,
                    _determine_question_type(question_text), <<>>).score)

\* the lookups that get past the error check and miss the exact key
LayeredLookup ==
    /\ call.op = "find_best_match"
    /\ ~HasError(call.error)
    /\ ~HasKey(call.before, normalize(call.question_text))

\* C16: a record whose adjusted combined score is not strictly greater than 0.6
\* (so also one at exactly 0.6) is not accepted as a keyword match, and a key
\* whose ratio is not strictly greater than 0.8 is not accepted as a fuzzy match
C16_ThresholdsAreStrict ==
    LayeredLookup =>
        LET q == normalize(call.question_text)
        IN  /\ (\A i \in 1..Len(call.before) :
                    LET s == ScoreOf(q, call.before[i].key)
                    IN  s = None \/ s[1].n * 100 <= COMBINED_SCORE_THRESHOLD * s[1].d)
                => call.path # "keyword"
            /\ (\A i \in 1..Len(call.before) :
                    LET r == Ratio(q, Lower(call.before[i].key))
                    IN  r.n * 100 <= FUZZY_MATCH_THRESHOLD * r.d)
                => call.path # "fuzzy"

\* a lookup that found nothing in a store with one record at exactly 0.6 and
\* another key at a ratio of exactly 0.8
C16_Witness ==
    /\ LayeredLookup
    /\ call.path = "none"
    /\ call.result = None
    /\ Len(call.before) = 2
    /\ ScoreOf(normalize(call.question_text), call.before[1].key) = Some([n |-> 3, d |-> 5])
    /\ Ratio(normalize(call.question_text), Lower(call.before[2].key)) = [n |-> 4, d |-> 5]

\* the records of a store whose adjusted combined score for a question exceeds
\* the acceptance threshold, and those whose ratio exceeds the fuzzy threshold
KeywordAccepted(store, q) ==
    {i \in 1..Len(store) :
        LET s == ScoreOf(q, store[i].key)
        IN  s # None /\ s[1].n * 100 > COMBINED_SCORE_THRESHOLD * s[1].d}

FuzzyAccepted(store, q) ==
    {i \in 1..Len(store) :
        LET r == Ratio(q, Lower(store[i].key))
        IN  r.n * 100 > FUZZY_MATCH_THRESHOLD * r.d}

\* the first record of S with the highest adjusted combined score
TopScored(store, q, S) ==
    CHOOSE i \in S : \A j \in S :
        \/ GT(ScoreOf(q, store[i].key)[1], ScoreOf(q, store[j].key)[1])
        \/ (ScoreOf(q, store[i].key) = ScoreOf(q, store[j].key) /\ i <= j)

\* the first record of S with the highest ratio
TopRatio(store, q, S) ==
    CHOOSE i \in S : \A j \in S :
        \/ GT(Ratio(q, Lower(store[i].key)), Ratio(q, Lower(store[j].key)))
        \/ (Ratio(q, Lower(store[i].key)) = Ratio(q, Lower(store[j].key)) /\ i <= j)

C18_MalformedRecordIsSkipped ==
    (/\ call.op = "find_best_match"
     /\ \E i \in 1..Len(call.before) : "answer" \notin DOMAIN call.before[i])
    => ~call.raised

(***************************************************************************)
(* Option Resolver.                                                        *)
(***************************************************************************)
\* C19: the Option Resolver returns None or one of the options given, also for
\* an empty option list
C19_ResultIsAnOptionOrNone ==
    call.op = "_find_closest_option" =>
        \/ call.result = None
        \/ \E i \in 1..Len(call.options) : call.result = Some(call.options[i])

\* the semantic similarity of an answer and an option
SemanticOf(answer_lower, option) ==
    _calculate_semantic_similarity(
        _process_text_for_semantic_matching(answer_lower, <<>>),
        _process_text_for_semantic_matching(Strip(Lower(option)), <<>>))

\* the exact, semantic and fuzzy passes all fail
PassesFail(answer_lower, options) ==
    /\ \A i \in 1..Len(options) : Strip(Lower(options[i])) # answer_lower
    /\ stemmer => \A i \in 1..Len(options) :
            LET s == SemanticOf(answer_lower, options[i])
            IN  s.n * 100 <= SEMANTIC_MATCH * s.d
    /\ \A i \in 1..Len(options) :
            LET r == Ratio(answer_lower, Lower(options[i]))
            IN  r.n * 100 <= FUZZY_MATCH * r.d

\* the options that contain the answer or are contained in it
Containing(answer_lower, options) ==
    {i \in 1..Len(options) :
        \/ Contains(Strip(Lower(options[i])), answer_lower)
        \/ Contains(answer_lower, Strip(Lower(options[i])))}

\* C20: when some option contains the answer or is contained in it, the Option
\* Resolver returns an option; when the exact, semantic and fuzzy passes fail
\* it returns the first such option in list order
C20_ContainmentGivesAnOption ==
    (/\ call.op = "_find_closest_option"
     /\ call.options # <<>>
     /\ Containing(Strip(Lower(call.answer)), call.options) # {})
    => /\ \E i \in 1..Len(call.options) : call.result = Some(call.options[i])
       /\ PassesFail(Strip(Lower(call.answer)), call.options) =>
            \E i \in Containing(Strip(Lower(call.answer)), call.options) :
                /\ call.result = Some(call.options[i])
                /\ \A j \in Containing(Strip(Lower(call.answer)), call.options) : i <= j

\* an answer resolved by containment alone, to the first of two options it
\* contains, with a stemmer set
C20_Witness ==
    /\ call.op = "_find_closest_option"
    /\ stemmer
    /\ PassesFail(Strip(Lower(call.answer)), call.options)
    /\ Cardinality(Containing(Strip(Lower(call.answer)), call.options)) = 2
    /\ call.result = Some(call.options[1])
    /\ call.options[1] = <<"s", "e", "a">>

\* every record of the store and of the file has a source in allowed
SourcesWithin(allowed) ==
    /\ \A i \in 1..Len(responses) : responses[i].source \in allowed
    /\ file_content.state = "json" =>
        \A i \in 1..Len(file_content.responses) :
            file_content.responses[i].source \in allowed

\* the record get_gemini_response has just written carries the marker
WrittenByGeminiCarries(marker) ==
    (/\ call.op = "get_gemini_response"
     /\ call.saves
     /\ call.completion # None)
    => \E i \in 1..Len(responses) :
        /\ responses[i].key = normalize(call.question_text)
        /\ responses[i].source = marker

\* C21: every record the program writes has the source "manual" or
\* "ai-generated", and the records written by get_gemini_response carry
\* "ai-generated"
C21_SourceIsManualOrAiGenerated ==
    /\ SourcesWithin({"manual", "ai-generated"})
    /\ WrittenByGeminiCarries("ai-generated")

\* the same statement with the marker the code writes, "gemini"
C21_SourceIsManualOrGemini ==
    /\ SourcesWithin({"manual", "gemini"})
    /\ WrittenByGeminiCarries("gemini")

\* the keys of store, in the order of the mapping
KeysOf(store) == [i \in 1..Len(store) |-> store[i].key]

\* C22: over every step of find_best_match, add_response and
\* get_gemini_response no key is removed from the store and the number of
\* records never decreases: every key keeps its position, and a write under a
\* key the store already has replaces that record where it stands
C22_KeysAreNeverRemoved ==
    [][/\ Len(responses') >= Len(responses)
       /\ SubSeq(KeysOf(responses'), 1, Len(responses)) = KeysOf(responses)
       /\ (/\ call'.op = "add_response"
           /\ HasKey(responses, normalize(call'.question_text)))
          => /\ KeysOf(responses') = KeysOf(responses)
             /\ Record(responses', normalize(call'.question_text)).answer
                    = call'.answer]_vars

\* add_response has replaced the record of a key the store had, in a store
\* of two records, with another answer
C22_Witness ==
    /\ call.op = "add_response"
    /\ Len(call.before) = 2
    /\ HasKey(call.before, normalize(call.question_text))
    /\ Record(call.before, normalize(call.question_text)).answer # call.answer
    /\ Len(responses) = 2

\* the handlers of the choice fields
ChoiceHandlers == {"handle_select", "handle_radio", "handle_checkbox"}

\* C23: a choice field (select, radio group, checkbox group) that presents at
\* least one option ends the sequence of store lookup and generator call with
\* one of its options handed to the page, also when the store has no match and
\* the generator fails or answers with no option
C23_ChoiceFieldGetsAnOption ==
    (/\ call.op \in ChoiceHandlers
     /\ call.options # None
     /\ call.options[1] # <<>>)
    => /\ call.written # None
       /\ \E i \in 1..Len(call.options[1]) : call.written[1] = call.options[1][i]

\* the same for the radio group alone, the one handler that falls back to the
\* first option
C23_RadioGroupGetsAnOption ==
    (call.op = "handle_radio" /\ call.options[1] # <<>>)
    => /\ call.written # None
       /\ \E i \in 1..Len(call.options[1]) : call.written[1] = call.options[1][i]

\* a select left unanswered after a failed generator call
C23_SelectLeftUnanswered ==
    /\ call.op = "handle_select"
    /\ call.ai_called
    /\ call.written = None

\* the words of a text that the stemming cache does not hold
NewWords(text, cache) == {w \in SetOf(FindWords(Lower(text))) : w \notin DOMAIN cache}

\* C24: the stemming cache never holds more than STEM_CACHE_SIZE entries, an
\* entry once cached is never removed or changed, and once the cache is full
\* a new word is stemmed without being added: the cache stays as it is and the
\* loop gives the stems it gives with an empty cache, in _extract_keywords
\* and in _process_text_for_semantic_matching alike
C24_StemCacheIsBounded ==
    [][/\ Cardinality(DOMAIN stem_cache) <= STEM_CACHE_SIZE
       /\ Cardinality(DOMAIN stem_cache') <= STEM_CACHE_SIZE
       /\ \A w \in DOMAIN stem_cache :
            w \in DOMAIN stem_cache' /\ stem_cache'[w] = stem_cache[w]
       /\ Cardinality(DOMAIN stem_cache) = STEM_CACHE_SIZE => stem_cache' = stem_cache
       /\ call'.op = "_extract_keywords" =>
            call'.result = _extract_keywords(call'.text, <<>>).keywords
       /\ call'.op = "_process_text_for_semantic_matching" =>
            call'.result
                = _process_text_for_semantic_matching(call'.text, <<>>).stemmed_words]_vars

\* a full cache after _process_text_for_semantic_matching stemmed a text with
\* a word the cache does not hold, itself after _extract_keywords
C24_Witness ==
    /\ call.op = "_process_text_for_semantic_matching"
    /\ clock = 2
    /\ Cardinality(DOMAIN stem_cache) = STEM_CACHE_SIZE
    /\ NewWords(call.text, stem_cache) # {}
    /\ call.result # <<>>

\* C25: whenever process_job_card returns, on every path, the exception path
\* after the job description was set included, the response manager's
\* current_job_description is None
C25_DescriptionClearedOnReturn ==
    call.op = "process_job_card" => current_job_description = None

\* the same for the returns at the end of process_job_card, after the
\* clean-up
C25_DescriptionClearedAfterCleanUp ==
    (call.op = "process_job_card" /\ call.path \in {"not_easy_apply", "applied", "failed"})
    => current_job_description = None

\* process_job_card has returned through its except clause with the job
\* description still set
C25_DescriptionLeftSet ==
    /\ call.op = "process_job_card"
    /\ call.path = "resume_raised"
    /\ current_job_description # None

\* C26: the processed counter is incremented only if Submit application was
\* clicked: process_job_card counts a job as processed only after
\* handle_navigation clicked Submit
C26_ProcessedOnlyAfterSubmit ==
    (call.op = "process_job_card" /\ call.path = "applied") => call.submitted

\* a job counted as processed although no Submit button was clicked
C26_CountedWithoutSubmit ==
    /\ call.op = "process_job_card"
    /\ call.path = "applied"
    /\ ~call.submitted
    /\ stats.processed = 1

\* fill_in_details is running its attempt a for the card in hand
InFillInDetails(a) ==
    /\ current_job.pc \in {"handle_form_fields", "handle_navigation"}
    /\ current_job.attempt = a

\* C27: every call of fill_in_details eventually returns, whatever the page
\* does
C27_FillInDetailsReturns ==
    \A a \in 0..(max_attempts - 1) : InFillInDetails(a) ~> ~InFillInDetails(a)

\* the loop on a page that keeps its validation error and its Next button
C27_LoopOnPersistentError ==
    /\ current_job.pc = "handle_form_fields"
    /\ current_job.page = "error"
    /\ call.op = "handle_navigation"
    /\ call.clicked = "next"

\* C28: process_job_card is entered only for an ember id that is not in
\* processed_ids, every return of process_job_card leaves the id in
\* processed_ids, processed_ids never loses an id, and
\* process_job_cards_batch skips a card whose id is in processed_ids
C28_CardHandledAtMostOnce ==
    [][/\ processed_ids \subseteq processed_ids'
       /\ (current_job.pc = "idle" /\ current_job'.pc # "idle")
            => current_job'.ember_id \notin processed_ids
       /\ (current_job.pc = "idle" /\ call'.op = "process_job_card")
            => call'.ember_id \notin processed_ids
       /\ call'.op = "process_job_card" => call'.ember_id \in processed_ids'
       /\ (current_job.pc = "idle" /\ call'.op = "skip")
            => /\ call'.ember_id \in processed_ids
               /\ UNCHANGED <<application, current_job_description>>]_vars

\* a card applied to, met again and skipped
C28_Witness ==
    /\ call.op = "skip"
    /\ stats.processed = 1
    /\ call.ember_id \in processed_ids
    /\ Cardinality(processed_ids) = 1

\* the path a constructor takes from the candidate list paths on the file
\* system fs: the first that exists, else the first
TakenFrom(fs, paths) ==
    IF FoundPath(fs, paths) # None THEN FoundPath(fs, paths) ELSE Some(paths[1])

\* C29: the candidate list a constructor searches, and the file it chooses,
\* depend only on its own json_path argument, the environment and the
\* configuration: they are those of a constructor run on the list of the
\* configuration as it is defined, whatever managers were constructed before
C29_CandidatesAreTheManagersOwn ==
    (call.op = "__init__" /\ ~call.headless)
    => /\ potential_paths = Inserted(FORM_RESPONSES, call.json_path)
       /\ ~call.raised =>
            json_path = TakenFrom(call.files, Inserted(FORM_RESPONSES, call.json_path))

\* the same for the first constructor call of a process
C29_FirstManagerSearchesOwnCandidates ==
    (call.op = "__init__" /\ ~call.headless /\ call.potential_paths = FORM_RESPONSES)
    => /\ potential_paths = Inserted(FORM_RESPONSES, call.json_path)
       /\ ~call.raised =>
            json_path = TakenFrom(call.files, Inserted(FORM_RESPONSES, call.json_path))

\* a manager constructed without argument that took the file named by the
\* json_path argument of the manager constructed before it
C29_LaterManagerTakesEarlierPath ==
    /\ call.op = "__init__"
    /\ call.json_path = None
    /\ ~call.headless
    /\ environ = None
    /\ json_path = Some(<<"m", "y", "/", "r", ".", "j", "s", "o", "n">>)

\* add_response has just made a write that ended as outcome on a file that
\* held the mapping of an earlier write
WriteEndedAs(outcome) ==
    /\ call.op = "add_response"
    /\ call.outcome = outcome
    /\ call.file_before.state = "json"

\* C30: when the write of the store file fails part-way during add_response,
\* the file still holds the content of the last successful write, and a
\* process started afterwards loads the records persisted before
C30_FailedWriteKeepsLastFile ==
    WriteEndedAs("dump_failed")
    => /\ file_content = call.file_before
       /\ _load_responses(file_content, "written").responses = call.file_before.responses

\* the same for a write that fails before the file is opened
C30_FailedOpenKeepsLastFile ==
    WriteEndedAs("open_failed")
    => /\ file_content = call.file_before
       /\ _load_responses(file_content, "written").responses = call.file_before.responses

\* a file that held two records and from which a later process loads none
C30_RecordsLostAfterFailedWrite ==
    /\ WriteEndedAs("dump_failed")
    /\ Len(call.file_before.responses) = 2
    /\ _load_responses(file_content, "written").responses = <<>>
====
